---- MODULE Spec2Model ----
(***************************************************************************)
(* Model of the local-places gateway (skills/local-places): the request    *)
(* schemas (schemas.py), the Google Places client (google_places.py) and   *)
(* the FastAPI handlers (main.py).                                         *)
(*                                                                         *)
(* Conventions.                                                            *)
(*  - Python's None is the record None; an optional value that is present  *)
(*    is Some(v).                                                          *)
(*  - Free text whose content matters (query, keyword, location_text) is a *)
(*    sequence of one-character strings, so that str.strip() and len() are *)
(*    computed; opaque strings (ids, tokens, keys, type tags) are strings. *)
(*  - Floats are scaled integers: coordinates in whole degrees, radius in  *)
(*    whole metres, ratings in tenths (33 is 3.3).                         *)
(*  - A Python call either returns or raises: Ok(v) or Raise(exception).   *)
(***************************************************************************)
EXTENDS Integers, Sequences, FiniteSets, TLC

VARIABLES
    env_api_key,   \* os.environ["GOOGLE_PLACES_API_KEY"]: None or Some(key)
    pc,            \* "idle", "awaiting" (HTTP call in flight) or "done"
    op,            \* the operation invoked: "search", "details", "resolve"
    request,       \* the raw request of the invocation (a place id for details)
    sent,          \* the HTTP requests sent to the provider by this invocation
    reply,         \* the provider's reply to the call, None before it arrives
    outcome,       \* what the invocation returned or raised, None while running
    log,           \* the records this invocation wrote to the loggers
    prev_failure,  \* what the caller saw of the last upstream failure before this one
    v_request,     \* validator specification: the raw request under validation
    v_result,      \* validator specification: None, or the validation's result
    handlers       \* concurrent specification: the handler running in each worker

vars == <<env_api_key, pc, op, request, sent, reply, outcome, log, prev_failure,
          v_request, v_result, handlers>>

----------------------------------------------------------------------------
(* Python values *)

None == [k |-> "None"]

Some(v) == [k |-> "Some", v |-> v]

Ok(v) == [raised |-> FALSE, value |-> v]

Raise(e) == [raised |-> TRUE, exc |-> e]

\* Bound of the model: the longest free text
MaxStrLen == 2

Chars == {" ", "a"}

Text == UNION {[1..n -> Chars] : n \in 0..MaxStrLen}

RECURSIVE lstrip(_)
lstrip(s) == IF s # <<>> /\ Head(s) = " " THEN lstrip(Tail(s)) ELSE s

RECURSIVE rstrip(_)
rstrip(s) ==
    IF s # <<>> /\ s[Len(s)] = " " THEN rstrip(SubSeq(s, 1, Len(s) - 1)) ELSE s

\* str.strip()
strip(s) == rstrip(lstrip(s))

----------------------------------------------------------------------------
(* schemas.py: the constraints pydantic enforces on a request *)

LatMin == -90

LatMax == 90

LngMin == -180

LngMax == 180

RatingMin == 0

RatingMax == 50

SearchLimitDefault == 10

SearchLimitMin == 1

SearchLimitMax == 20

ResolveLimitDefault == 5

ResolveLimitMin == 1

ResolveLimitMax == 10

QueryMinLength == 1

\* One entry of RequestValidationError.errors(): the field and the error type.
Err(loc, type) == [loc |-> loc, type |-> type]

\* Field(ge=lo, le=hi) on a number
GeLe(loc, value, lo, hi) ==
    IF value < lo THEN {Err(loc, "greater_than_equal")}
    ELSE IF value > hi THEN {Err(loc, "less_than_equal")}
    ELSE {}

\* mutant: the text is trimmed before its length is checked
MinLength_stripped(loc, value, n) ==
    IF Len(strip(value)) < n THEN {Err(loc, "string_too_short")} ELSE {}

\* Field(min_length=n) on a str
MinLength(loc, value, n) ==
    IF Len(value) < n THEN {Err(loc, "string_too_short")} ELSE {}

\* class LocationBias
LocationBiasErrors(loc, b) ==
    GeLe(loc \o <<"lat">>, b.lat, LatMin, LatMax)
    \cup GeLe(loc \o <<"lng">>, b.lng, LngMin, LngMax)
    \cup (IF b.radius_m > 0 THEN {} ELSE {Err(loc \o <<"radius_m">>, "greater_than")})

\* a ValueError raised by a field validator: pydantic reports it with its text
ValueError(loc, msg) == [loc |-> loc, type |-> "value_error", msg |-> msg]

\* mutant: two types are let through
validate_types_two(loc, value) ==
    IF value = None THEN {}
    ELSE IF Len(value.v) > 2
    THEN {ValueError(loc, "Only one type is supported. Use query/keyword for additional filtering.")}
    ELSE {}

\* Filters.validate_types
validate_types(loc, value) ==
    IF value = None THEN {}
    ELSE IF Len(value.v) > 1
    THEN {ValueError(loc, "Only one type is supported. Use query/keyword for additional filtering.")}
    ELSE {}

\* mutant: range(0, 6)
validate_price_levels_five(loc, value) ==
    IF value = None THEN {}
    ELSE LET invalid == {i \in 1..Len(value.v) : value.v[i] \notin 0..5}
         IN  IF invalid # {}
             THEN {ValueError(loc, "price_levels must be integers between 0 and 4.")}
             ELSE {}

\* Filters.validate_price_levels: level not in range(0, 5)
validate_price_levels(loc, value) ==
    IF value = None THEN {}
    ELSE LET invalid == {i \in 1..Len(value.v) : value.v[i] \notin 0..4}
         IN  IF invalid # {}
             THEN {ValueError(loc, "price_levels must be integers between 0 and 4.")}
             ELSE {}

\* mutant: the 0.5 increments are not checked
validate_min_rating_any(loc, value) == {}

\* Filters.validate_min_rating, in tenths: (value * 2) % 1 != 0
validate_min_rating(loc, value) ==
    IF value = None THEN {}
    ELSE IF (value.v * 2) % 10 # 0
    THEN {ValueError(loc, "min_rating must be in 0.5 increments.")}
    ELSE {}

\* mutant: the upper bound of the field is not enforced
MinRatingErrors_unbounded(loc, value) ==
    IF value = None THEN {}
    ELSE IF value.v < RatingMin THEN {Err(loc, "greater_than_equal")}
    ELSE validate_min_rating(loc, value)

\* Filters.min_rating: Field(ge=0, le=5) first, the field validator only on
\* a value that passed it
MinRatingErrors(loc, value) ==
    IF value = None THEN {}
    ELSE LET range == GeLe(loc, value.v, RatingMin, RatingMax)
         IN  IF range # {} THEN range ELSE validate_min_rating(loc, value)

\* class Filters
FiltersErrors(loc, f) ==
    validate_types(loc \o <<"types">>, f.types)
    \cup MinRatingErrors(loc \o <<"min_rating">>, f.min_rating)
    \cup validate_price_levels(loc \o <<"price_levels">>, f.price_levels)
    \cup (IF f.keyword = None THEN {}
          ELSE MinLength(loc \o <<"keyword">>, f.keyword.v, 1))

\* Field(default=d, ge=lo, le=hi) on limit: the default when omitted
LimitValue(raw, default) == IF raw = None THEN default ELSE raw.v

\* mutant: validation stops at the first field that fails
SearchRequestErrors_first(raw) ==
    LET query == MinLength(<<"body", "query">>, raw.query, QueryMinLength)
        bias == IF raw.location_bias = None THEN {}
                ELSE LocationBiasErrors(<<"body", "location_bias">>,
                                        raw.location_bias.v)
        filters == IF raw.filters = None THEN {}
                   ELSE FiltersErrors(<<"body", "filters">>, raw.filters.v)
        limit == IF raw.limit = None THEN {}
                 ELSE GeLe(<<"body", "limit">>, raw.limit.v, SearchLimitMin,
                           SearchLimitMax)
    IN  IF query # {} THEN query
        ELSE IF bias # {} THEN bias
        ELSE IF filters # {} THEN filters
        ELSE limit

\* class SearchRequest: the errors pydantic collects over the fields of a raw body
SearchRequestErrors(raw) ==
    MinLength(<<"body", "query">>, raw.query, QueryMinLength)
    \cup (IF raw.location_bias = None THEN {}
          ELSE LocationBiasErrors(<<"body", "location_bias">>, raw.location_bias.v))
    \cup (IF raw.filters = None THEN {}
          ELSE FiltersErrors(<<"body", "filters">>, raw.filters.v))
    \cup (IF raw.limit = None THEN {}
          ELSE GeLe(<<"body", "limit">>, raw.limit.v, SearchLimitMin, SearchLimitMax))

\* class SearchRequest: the validated model built from a raw body without errors
SearchRequest(raw) ==
    [query |-> raw.query,
     location_bias |-> raw.location_bias,
     filters |-> raw.filters,
     limit |-> LimitValue(raw.limit, SearchLimitDefault),
     page_token |-> raw.page_token]

\* class LocationResolveRequest: every violated constraint of a raw body
LocationResolveRequestErrors(raw) ==
    MinLength(<<"body", "location_text">>, raw.location_text, QueryMinLength)
    \cup (IF raw.limit = None THEN {}
          ELSE GeLe(<<"body", "limit">>, raw.limit.v, ResolveLimitMin, ResolveLimitMax))

\* class LocationResolveRequest: the validated model
LocationResolveRequest(raw) ==
    [location_text |-> raw.location_text,
     limit |-> LimitValue(raw.limit, ResolveLimitDefault)]

----------------------------------------------------------------------------
(* google_places.py: constants *)

GOOGLE_PLACES_BASE_URL == "https://places.googleapis.com/v1"

\* mutant: two levels share a name
_PRICE_LEVEL_TO_ENUM_shared ==
    0 :> "PRICE_LEVEL_FREE" @@ 1 :> "PRICE_LEVEL_INEXPENSIVE"
    @@ 2 :> "PRICE_LEVEL_MODERATE" @@ 3 :> "PRICE_LEVEL_EXPENSIVE"
    @@ 4 :> "PRICE_LEVEL_EXPENSIVE"

\* _PRICE_LEVEL_TO_ENUM
_PRICE_LEVEL_TO_ENUM ==
    (0 :> "PRICE_LEVEL_FREE") @@ (1 :> "PRICE_LEVEL_INEXPENSIVE")
    @@ (2 :> "PRICE_LEVEL_MODERATE") @@ (3 :> "PRICE_LEVEL_EXPENSIVE")
    @@ (4 :> "PRICE_LEVEL_VERY_EXPENSIVE")

\* _ENUM_TO_PRICE_LEVEL: the inverted table, as a set of (name, level) pairs
_ENUM_TO_PRICE_LEVEL ==
    {<<_PRICE_LEVEL_TO_ENUM[key], key>> : key \in DOMAIN _PRICE_LEVEL_TO_ENUM}

_SEARCH_FIELD_MASK ==
    <<"places.id", "places.displayName", "places.formattedAddress",
      "places.location", "places.rating", "places.priceLevel", "places.types",
      "places.currentOpeningHours", "nextPageToken">>

_DETAILS_FIELD_MASK ==
    <<"id", "displayName", "formattedAddress", "location", "rating",
      "priceLevel", "types", "regularOpeningHours", "currentOpeningHours",
      "nationalPhoneNumber", "websiteUri">>

\* mutant: the resolve mask also asks for the rating
_RESOLVE_FIELD_MASK_rated ==
    <<"places.id", "places.displayName", "places.formattedAddress",
      "places.location", "places.types", "places.rating">>

_RESOLVE_FIELD_MASK ==
    <<"places.id", "places.displayName", "places.formattedAddress",
      "places.location", "places.types">>

\* fastapi.HTTPException(status_code, detail); detail is the message with the
\* value formatted into it, if any
HTTPException(status_code, text, arg) ==
    [type |-> "HTTPException", status_code |-> status_code,
     detail |-> [text |-> text, arg |-> arg]]

\* a dict entry that is set only under a condition
Opt(cond, entries) == IF cond THEN entries ELSE <<>>

----------------------------------------------------------------------------
(* google_places.py: the query builder *)

\* mutant: the composed text is not trimmed
_build_text_query_untrimmed(req) ==
    LET keyword == IF req.filters # None THEN req.filters.v.keyword ELSE None
    IN  IF keyword # None /\ keyword.v # <<>>
        THEN req.query \o <<" ">> \o keyword.v
        ELSE req.query

\* _build_text_query
_build_text_query(req) ==
    LET keyword == IF req.filters # None THEN req.filters.v.keyword ELSE None
    IN  IF keyword # None /\ keyword.v # <<>>
        THEN strip(req.query \o <<" ">> \o keyword.v)
        ELSE req.query

\* mutant: the page size is the largest page, not the request's limit
_build_search_body_max_page(req) ==
    [textQuery |-> _build_text_query(req), pageSize |-> SearchLimitMax]

\* mutant: "if filters.open_now" and "if filters.min_rating", so that False
\* and 0 are left out
_build_search_body_truthy(req) ==
    [textQuery |-> _build_text_query(req), pageSize |-> req.limit]
    @@ Opt(req.page_token # None /\ req.page_token.v # "",
           [pageToken |-> req.page_token.v])
    @@ Opt(req.location_bias # None,
           [locationBias |->
              [circle |->
                 [center |-> [latitude |-> req.location_bias.v.lat,
                              longitude |-> req.location_bias.v.lng],
                  radius |-> req.location_bias.v.radius_m]]])
    @@ Opt(req.filters # None /\ req.filters.v.types # None
             /\ req.filters.v.types.v # <<>>,
           [includedType |-> req.filters.v.types.v[1]])
    @@ Opt(req.filters # None /\ req.filters.v.open_now # None
             /\ req.filters.v.open_now.v,
           [openNow |-> req.filters.v.open_now.v])
    @@ Opt(req.filters # None /\ req.filters.v.min_rating # None
             /\ req.filters.v.min_rating.v # 0,
           [minRating |-> req.filters.v.min_rating.v])
    @@ Opt(req.filters # None /\ req.filters.v.price_levels # None
             /\ req.filters.v.price_levels.v # <<>>,
           [priceLevels |->
              [i \in 1..Len(req.filters.v.price_levels.v) |->
                 _PRICE_LEVEL_TO_ENUM[req.filters.v.price_levels.v[i]]]])

\* mutant: "if request.page_token is not None", an empty token is sent too
_build_search_body_any_token(req) ==
    [textQuery |-> _build_text_query(req), pageSize |-> req.limit]
    @@ Opt(req.page_token # None, [pageToken |-> req.page_token.v])

_build_search_body(req) ==
    [textQuery |-> _build_text_query(req), pageSize |-> req.limit]
    @@ Opt(req.page_token # None /\ req.page_token.v # "",
           [pageToken |-> req.page_token.v])
    @@ Opt(req.location_bias # None,
           [locationBias |->
              [circle |->
                 [center |-> [latitude |-> req.location_bias.v.lat,
                              longitude |-> req.location_bias.v.lng],
                  radius |-> req.location_bias.v.radius_m]]])
    @@ Opt(req.filters # None /\ req.filters.v.types # None
             /\ req.filters.v.types.v # <<>>,
           [includedType |-> req.filters.v.types.v[1]])
    @@ Opt(req.filters # None /\ req.filters.v.open_now # None,
           [openNow |-> req.filters.v.open_now.v])
    @@ Opt(req.filters # None /\ req.filters.v.min_rating # None,
           [minRating |-> req.filters.v.min_rating.v])
    @@ Opt(req.filters # None /\ req.filters.v.price_levels # None
             /\ req.filters.v.price_levels.v # <<>>,
           [priceLevels |->
              [i \in 1..Len(req.filters.v.price_levels.v) |->
                 _PRICE_LEVEL_TO_ENUM[req.filters.v.price_levels.v[i]]]])

\* mutant: the resolve body carries a page token as the search body does
resolve_body_paged(req) ==
    [textQuery |-> req.location_text, pageSize |-> req.limit, pageToken |-> ""]

\* resolve_locations: its body
resolve_body(req) == [textQuery |-> req.location_text, pageSize |-> req.limit]

----------------------------------------------------------------------------
(* google_places.py: the provider client *)

\* mutant: only an unset key is refused, an empty one is sent
_api_headers_unset_only(api_key, field_mask) ==
    IF api_key = None
    THEN Raise(HTTPException(500, "GOOGLE_PLACES_API_KEY is not set.", None))
    ELSE Ok(("Content-Type" :> <<"application/json">>)
            @@ ("X-Goog-Api-Key" :> <<api_key.v>>)
            @@ ("X-Goog-FieldMask" :> field_mask))

\* mutant: the key read when the module was loaded is used for every call
_api_headers_cached(api_key, field_mask) ==
    IF api_key = None \/ api_key.v = ""
    THEN Raise(HTTPException(500, "GOOGLE_PLACES_API_KEY is not set.", None))
    ELSE Ok(("Content-Type" :> <<"application/json">>)
            @@ ("X-Goog-Api-Key" :> <<"key1">>)
            @@ ("X-Goog-FieldMask" :> field_mask))

\* _api_headers: the key is read from the environment at the call
_api_headers(api_key, field_mask) ==
    IF api_key = None \/ api_key.v = ""
    THEN Raise(HTTPException(500, "GOOGLE_PLACES_API_KEY is not set.", None))
    ELSE Ok(("Content-Type" :> <<"application/json">>)
            @@ ("X-Goog-Api-Key" :> <<api_key.v>>)
            @@ ("X-Goog-FieldMask" :> field_mask))

\* _request up to client.request(): the arguments are evaluated, the headers
\* last, and an exception of _api_headers is no httpx.HTTPError, so it
\* propagates before anything is sent
_request_send(api_key, method, url, payload, field_mask) ==
    LET headers == _api_headers(api_key, field_mask)
    IN  IF headers.raised THEN headers
        ELSE Ok([method |-> method, url |-> url, headers |-> headers.value,
                 json |-> payload])

\* the kinds of httpx.HTTPError client.request() raises
TransportFailures == {"ConnectTimeout", "ReadTimeout", "ConnectError"}

\* mutant: only timeouts are caught, a refused connection escapes
_request_receive_timeouts_only(r) ==
    IF r.kind = "transport"
    THEN IF r.failure \in {"ConnectTimeout", "ReadTimeout"}
         THEN Raise(HTTPException(502, "Google Places API unavailable.", None))
         ELSE Raise([type |-> r.failure])
    ELSE Ok([status_code |-> r.status_code, body |-> r.body])

\* _request from client.request() on: except httpx.HTTPError, or the response
_request_receive(r) ==
    IF r.kind = "transport"
    THEN Raise(HTTPException(502, "Google Places API unavailable.", None))
    ELSE Ok([status_code |-> r.status_code, body |-> r.body])

----------------------------------------------------------------------------
(* The value response.json() returns: Python's view of a JSON document.    *)
(* JNull is Python's None, which dict.get() also returns for a missing key *)

JNull == [t |-> "null"]

JBool(b) == [t |-> "bool", b |-> b]

JNum(n) == [t |-> "num", n |-> n]

JStr(s) == [t |-> "str", s |-> s]

JList(items) == [t |-> "list", items |-> items]

JObj(fields) == [t |-> "obj", fields |-> fields]

\* the exceptions the normalizer's own code raises
AttributeError == [type |-> "AttributeError"]

TypeError == [type |-> "TypeError"]

ValidationError == [type |-> "ValidationError"]

\* bool(value)
Truthy(j) ==
    CASE j.t = "null" -> FALSE
      [] j.t = "bool" -> j.b
      [] j.t = "num" -> j.n # 0
      [] j.t = "str" -> j.s # ""
      [] j.t = "list" -> j.items # <<>>
      [] j.t = "obj" -> DOMAIN j.fields # {}

\* value.get(key): AttributeError on anything but a dict
Get(j, key) ==
    IF j.t # "obj" THEN Raise(AttributeError)
    ELSE IF key \in DOMAIN j.fields THEN Ok(j.fields[key]) ELSE Ok(JNull)

\* value.get(key, default)
GetDefault(j, key, default) ==
    IF j.t # "obj" THEN Raise(AttributeError)
    ELSE IF key \in DOMAIN j.fields THEN Ok(j.fields[key]) ELSE Ok(default)

\* the first exception raised by calls made in this order, or Ok(<<>>)
FirstRaise(calls) ==
    IF \E i \in 1..Len(calls) : calls[i].raised
    THEN calls[CHOOSE i \in 1..Len(calls) :
                 /\ calls[i].raised
                 /\ \A j \in 1..(i - 1) : ~calls[j].raised]
    ELSE Ok(<<>>)

----------------------------------------------------------------------------
(* google_places.py: the response normalizer *)

\* class LatLng: lat and lng are floats within their ranges
LatLng(latitude, longitude) ==
    IF latitude.t # "num" \/ longitude.t # "num" THEN Raise(ValidationError)
    ELSE IF latitude.n < LatMin \/ latitude.n > LatMax THEN Raise(ValidationError)
    ELSE IF longitude.n < LngMin \/ longitude.n > LngMax THEN Raise(ValidationError)
    ELSE Ok(Some([lat |-> latitude.n, lng |-> longitude.n]))

\* mutant: a coordinate of 0 is taken for a missing one
_parse_lat_lng_truthy(raw) ==
    IF ~Truthy(raw) THEN Ok(None)
    ELSE LET latitude == Get(raw, "latitude")
             longitude == Get(raw, "longitude")
         IN  IF latitude.raised THEN latitude
             ELSE IF ~Truthy(latitude.value) \/ ~Truthy(longitude.value) THEN Ok(None)
             ELSE LatLng(latitude.value, longitude.value)

\* _parse_lat_lng
_parse_lat_lng(raw) ==
    IF ~Truthy(raw) THEN Ok(None)
    ELSE LET latitude == Get(raw, "latitude")
             longitude == Get(raw, "longitude")
         IN  IF latitude.raised THEN latitude
             ELSE IF latitude.value = JNull \/ longitude.value = JNull THEN Ok(None)
             ELSE LatLng(latitude.value, longitude.value)

_parse_display_name(raw) == IF ~Truthy(raw) THEN Ok(JNull) ELSE Get(raw, "text")

\* mutant: no "if not raw" before raw.get
_parse_open_now_unguarded(raw) == Get(raw, "openNow")

_parse_open_now(raw) == IF ~Truthy(raw) THEN Ok(JNull) ELSE Get(raw, "openNow")

_parse_hours(raw) ==
    IF ~Truthy(raw) THEN Ok(JNull) ELSE Get(raw, "weekdayDescriptions")

\* mutant: _ENUM_TO_PRICE_LEVEL[raw], KeyError on a name that is not in it
_parse_price_level_subscript(raw) ==
    IF ~Truthy(raw) THEN Ok(None)
    ELSE IF raw.t \in {"list", "obj"} THEN Raise(TypeError)
    ELSE IF raw.t = "str" /\ \E e \in _ENUM_TO_PRICE_LEVEL : e[1] = raw.s
    THEN Ok(Some((CHOOSE e \in _ENUM_TO_PRICE_LEVEL : e[1] = raw.s)[2]))
    ELSE Raise([type |-> "KeyError"])

\* _ENUM_TO_PRICE_LEVEL.get(raw): a list or a dict is unhashable
_parse_price_level(raw) ==
    IF ~Truthy(raw) THEN Ok(None)
    ELSE IF raw.t \in {"list", "obj"} THEN Raise(TypeError)
    ELSE IF raw.t = "str" /\ \E e \in _ENUM_TO_PRICE_LEVEL : e[1] = raw.s
    THEN Ok(Some((CHOOSE e \in _ENUM_TO_PRICE_LEVEL : e[1] = raw.s)[2]))
    ELSE Ok(None)

\* pydantic's checks of the fields of the result records. The replies of the
\* model hold no value pydantic would coerce (a numeric string, a bool in a
\* number's place): a value is of the field's JSON type, null, or of a type
\* pydantic refuses.
\* ... of a field of type str
StrField(j) == IF j.t = "str" THEN Ok(j.s) ELSE Raise(ValidationError)

\* ... of type str | None
OptStrField(j) ==
    IF j.t = "null" THEN Ok(None)
    ELSE IF j.t = "str" THEN Ok(Some(j.s))
    ELSE Raise(ValidationError)

\* ... of type float | None
OptFloatField(j) ==
    IF j.t = "null" THEN Ok(None)
    ELSE IF j.t = "num" THEN Ok(Some(j.n))
    ELSE Raise(ValidationError)

\* ... of type bool | None
OptBoolField(j) ==
    IF j.t = "null" THEN Ok(None)
    ELSE IF j.t = "bool" THEN Ok(Some(j.b))
    ELSE Raise(ValidationError)

\* ... of type list[str] | None
OptStrListField(j) ==
    IF j.t = "null" THEN Ok(None)
    ELSE IF j.t = "list" /\ \A i \in 1..Len(j.items) : j.items[i].t = "str"
    THEN Ok(Some([i \in 1..Len(j.items) |-> j.items[i].s]))
    ELSE Raise(ValidationError)


\* for place in places: the items, or TypeError; a str yields its characters
\* and a dict its keys, which are strs (one stands for them, it raises first)
Iterate(j) ==
    CASE j.t = "list" -> Ok(j.items)
      [] j.t = "str" -> Ok(IF j.s = "" THEN <<>> ELSE <<JStr(j.s)>>)
      [] j.t = "obj" ->
           Ok(IF DOMAIN j.fields = {} THEN <<>>
              ELSE <<JStr(CHOOSE key \in DOMAIN j.fields : TRUE)>>)
      [] OTHER -> Raise(TypeError)

\* the values of a model's fields, or pydantic's ValidationError
Validated(fields, record) ==
    IF \E key \in DOMAIN fields : fields[key].raised THEN Raise(ValidationError)
    ELSE Ok(record)

\* search_places: PlaceSummary(place_id=place.get("id", ""), ...) of one place
PlaceSummary(place) ==
    IF place.t # "obj" THEN Raise(AttributeError)
    ELSE
    LET place_id == GetDefault(place, "id", JStr("")).value
        name == _parse_display_name(Get(place, "displayName").value)
        address == Get(place, "formattedAddress").value
        location == _parse_lat_lng(Get(place, "location").value)
        rating == Get(place, "rating").value
        price_level == _parse_price_level(Get(place, "priceLevel").value)
        types == Get(place, "types").value
        open_now == _parse_open_now(Get(place, "currentOpeningHours").value)
        args == FirstRaise(<<name, location, price_level, open_now>>)
        f == [place_id |-> StrField(place_id), name |-> OptStrField(name.value),
              address |-> OptStrField(address), rating |-> OptFloatField(rating),
              types |-> OptStrListField(types),
              open_now |-> OptBoolField(open_now.value)]
    IN  IF args.raised THEN args
        ELSE Validated(f,
               [place_id |-> f.place_id.value, name |-> f.name.value,
                address |-> f.address.value, location |-> location.value,
                rating |-> f.rating.value, price_level |-> price_level.value,
                types |-> f.types.value, open_now |-> f.open_now.value])

\* resolve_locations: ResolvedLocation(place_id=place.get("id", ""), ...)
ResolvedLocation(place) ==
    IF place.t # "obj" THEN Raise(AttributeError)
    ELSE
    LET place_id == GetDefault(place, "id", JStr("")).value
        name == _parse_display_name(Get(place, "displayName").value)
        address == Get(place, "formattedAddress").value
        location == _parse_lat_lng(Get(place, "location").value)
        types == Get(place, "types").value
        args == FirstRaise(<<name, location>>)
        f == [place_id |-> StrField(place_id), name |-> OptStrField(name.value),
              address |-> OptStrField(address), types |-> OptStrListField(types)]
    IN  IF args.raised THEN args
        ELSE Validated(f,
               [place_id |-> f.place_id.value, name |-> f.name.value,
                address |-> f.address.value, location |-> location.value,
                types |-> f.types.value])

\* get_place_details: PlaceDetails(place_id=payload.get("id", place_id), ...)
PlaceDetails(payload, id) ==
    IF payload.t # "obj" THEN Raise(AttributeError)
    ELSE
    LET place_id == GetDefault(payload, "id", JStr(id)).value
        name == _parse_display_name(Get(payload, "displayName").value)
        address == Get(payload, "formattedAddress").value
        location == _parse_lat_lng(Get(payload, "location").value)
        rating == Get(payload, "rating").value
        price_level == _parse_price_level(Get(payload, "priceLevel").value)
        types == Get(payload, "types").value
        phone == Get(payload, "nationalPhoneNumber").value
        website == Get(payload, "websiteUri").value
        hours == _parse_hours(Get(payload, "regularOpeningHours").value)
        open_now == _parse_open_now(Get(payload, "currentOpeningHours").value)
        args == FirstRaise(<<name, location, price_level, hours, open_now>>)
        f == [place_id |-> StrField(place_id), name |-> OptStrField(name.value),
              address |-> OptStrField(address), rating |-> OptFloatField(rating),
              types |-> OptStrListField(types), phone |-> OptStrField(phone),
              website |-> OptStrField(website),
              hours |-> OptStrListField(hours.value),
              open_now |-> OptBoolField(open_now.value)]
    IN  IF args.raised THEN args
        ELSE Validated(f,
               [place_id |-> f.place_id.value, name |-> f.name.value,
                address |-> f.address.value, location |-> location.value,
                rating |-> f.rating.value, price_level |-> price_level.value,
                types |-> f.types.value, phone |-> f.phone.value,
                website |-> f.website.value, hours |-> f.hours.value,
                open_now |-> f.open_now.value])

\* mutant: results.insert(0, ...), the records come out in reverse order
Results_reversed(places, record) ==
    LET items == Iterate(places)
    IN  IF items.raised THEN items
        ELSE LET each == [i \in 1..Len(items.value) |->
                            IF record = "PlaceSummary"
                            THEN PlaceSummary(items.value[i])
                            ELSE ResolvedLocation(items.value[i])]
                 first == FirstRaise(each)
             IN  IF first.raised THEN first
                 ELSE Ok([i \in 1..Len(each) |-> each[Len(each) + 1 - i].value])

\* the loop "for place in places: results.append(...)" of search_places
\* (record = "PlaceSummary") and of resolve_locations ("ResolvedLocation")
Results(places, record) ==
    LET items == Iterate(places)
    IN  IF items.raised THEN items
        ELSE LET each == [i \in 1..Len(items.value) |->
                            IF record = "PlaceSummary"
                            THEN PlaceSummary(items.value[i])
                            ELSE ResolvedLocation(items.value[i])]
                 first == FirstRaise(each)
             IN  IF first.raised THEN first
                 ELSE Ok([i \in 1..Len(each) |-> each[i].value])

\* search_places from "places = payload.get(...)" on
SearchResponse(payload) ==
    LET places == GetDefault(payload, "places", JList(<<>>))
    IN  IF places.raised THEN places
        ELSE LET results == Results(places.value, "PlaceSummary")
                 next_page_token == OptStrField(Get(payload, "nextPageToken").value)
             IN  IF results.raised THEN results
                 ELSE IF next_page_token.raised THEN next_page_token
                 ELSE Ok([results |-> results.value,
                          next_page_token |-> next_page_token.value])

\* resolve_locations from "places = payload.get(...)" on
LocationResolveResponse(payload) ==
    LET places == GetDefault(payload, "places", JList(<<>>))
    IN  IF places.raised THEN places
        ELSE LET results == Results(places.value, "ResolvedLocation")
             IN  IF results.raised THEN results
                 ELSE Ok([results |-> results.value])

----------------------------------------------------------------------------
(* google_places.py: the three operations, from the provider's response on *)

LogRecord(logger, msg, status_code, body) ==
    [logger |-> logger, level |-> "error", msg |-> msg,
     status_code |-> status_code, body |-> body]

\* mutant: only a server error (5xx) is an upstream error
upstream_failure_server_only(response) ==
    IF response.status_code >= 500
    THEN Some([result |->
                 Raise(HTTPException(502, "Google Places API error (%s).",
                                     Some(response.status_code))),
               log |-> <<LogRecord("local_places.google_places",
                                   "Google Places API error %s. response=%s",
                                   Some(response.status_code),
                                   Some(response.body))>>])
    ELSE IF response.body.kind # "json"
    THEN Some([result |-> Raise(HTTPException(502, "Invalid Google response.", None)),
               log |-> <<LogRecord("local_places.google_places",
                                   "Google Places API returned invalid JSON. response=%s",
                                   None, Some(response.body))>>])
    ELSE None

\* mutant: a body that is no JSON is taken for an empty result
upstream_failure_empty_ok(response) ==
    IF response.status_code >= 400
    THEN Some([result |->
                 Raise(HTTPException(502, "Google Places API error (%s).",
                                     Some(response.status_code))),
               log |-> <<LogRecord("local_places.google_places",
                                   "Google Places API error %s. response=%s",
                                   Some(response.status_code),
                                   Some(response.body))>>])
    ELSE IF response.body.kind # "json"
    THEN Some([result |-> Ok([results |-> <<>>]), log |-> <<>>])
    ELSE None

\* mutant: the provider's status is passed through as the failure's status
upstream_failure_passthrough(response) ==
    IF response.status_code >= 400
    THEN Some([result |->
                 Raise(HTTPException(response.status_code,
                                     "Google Places API error (%s).",
                                     Some(response.status_code))),
               log |-> <<LogRecord("local_places.google_places",
                                   "Google Places API error %s. response=%s",
                                   Some(response.status_code),
                                   Some(response.body))>>])
    ELSE IF response.body.kind # "json"
    THEN Some([result |-> Raise(HTTPException(502, "Invalid Google response.", None)),
               log |-> <<LogRecord("local_places.google_places",
                                   "Google Places API returned invalid JSON. response=%s",
                                   None, Some(response.body))>>])
    ELSE None

\* mutant: the body is parsed before the status is looked at
upstream_failure_parse_first(response) ==
    IF response.body.kind # "json"
    THEN Some([result |-> Raise(HTTPException(502, "Invalid Google response.", None)),
               log |-> <<LogRecord("local_places.google_places",
                                   "Google Places API returned invalid JSON. response=%s",
                                   None, Some(response.body))>>])
    ELSE IF response.status_code >= 400
    THEN Some([result |->
                 Raise(HTTPException(502, "Google Places API error (%s).",
                                     Some(response.status_code))),
               log |-> <<LogRecord("local_places.google_places",
                                   "Google Places API error %s. response=%s",
                                   Some(response.status_code),
                                   Some(response.body))>>])
    ELSE None

\* mutant: a redirect is an upstream error too
upstream_failure_redirects(response) ==
    IF response.status_code >= 300
    THEN Some([result |->
                 Raise(HTTPException(502, "Google Places API error (%s).",
                                     Some(response.status_code))),
               log |-> <<LogRecord("local_places.google_places",
                                   "Google Places API error %s. response=%s",
                                   Some(response.status_code),
                                   Some(response.body))>>])
    ELSE IF response.body.kind # "json"
    THEN Some([result |-> Raise(HTTPException(502, "Invalid Google response.", None)),
               log |-> <<LogRecord("local_places.google_places",
                                   "Google Places API returned invalid JSON. response=%s",
                                   None, Some(response.body))>>])
    ELSE None

\* "if response.status_code >= 400: ..." and "try: payload = response.json()
\* except ValueError: ...", the same in the three operations: the exception
\* and the log record, or None
upstream_failure(response) ==
    IF response.status_code >= 400
    THEN Some([result |->
                 Raise(HTTPException(502, "Google Places API error (%s).",
                                     Some(response.status_code))),
               log |-> <<LogRecord("local_places.google_places",
                                   "Google Places API error %s. response=%s",
                                   Some(response.status_code),
                                   Some(response.body))>>])
    ELSE IF response.body.kind # "json"
    THEN Some([result |-> Raise(HTTPException(502, "Invalid Google response.", None)),
               log |-> <<LogRecord("local_places.google_places",
                                   "Google Places API returned invalid JSON. response=%s",
                                   None, Some(response.body))>>])
    ELSE None

search_places(response) ==
    LET failure == upstream_failure(response)
    IN  IF failure # None THEN failure.v
        ELSE [result |-> SearchResponse(response.body.value), log |-> <<>>]

get_place_details(place_id, response) ==
    LET failure == upstream_failure(response)
    IN  IF failure # None THEN failure.v
        ELSE [result |-> PlaceDetails(response.body.value, place_id), log |-> <<>>]

resolve_locations(response) ==
    LET failure == upstream_failure(response)
    IN  IF failure # None THEN failure.v
        ELSE [result |-> LocationResolveResponse(response.body.value), log |-> <<>>]

\* the HTTP request each operation makes, or the exception of _api_headers
search_places_call(api_key, req) ==
    _request_send(api_key, "POST", <<GOOGLE_PLACES_BASE_URL, "/places:searchText">>,
                  Some(_build_search_body(req)), _SEARCH_FIELD_MASK)

get_place_details_call(api_key, place_id) ==
    _request_send(api_key, "GET", <<GOOGLE_PLACES_BASE_URL, "/places/", place_id>>,
                  None, _DETAILS_FIELD_MASK)

resolve_locations_call(api_key, req) ==
    _request_send(api_key, "POST", <<GOOGLE_PLACES_BASE_URL, "/places:searchText">>,
                  Some(resolve_body(req)), _RESOLVE_FIELD_MASK)

----------------------------------------------------------------------------
(* main.py: the handlers *)

\* fastapi raises RequestValidationError before the handler runs
RequestValidationError(errors) ==
    [type |-> "RequestValidationError", errors |-> errors]

\* validation_exception_handler: its log record
validation_exception_handler(raw, errors) ==
    <<[logger |-> "local_places.validation", level |-> "error",
       msg |-> "Validation error on %s %s. body=%s errors=%s",
       body |-> raw, errors |-> errors]>>

----------------------------------------------------------------------------
(* The inputs of the model: raw requests, credentials, provider replies *)

RawSearch(Q, B, F, L, T) ==
    [query : Q, location_bias : B, filters : F, limit : L, page_token : T]

RawFilters(Ty, O, M, P, K) ==
    {Some(f) : f \in [types : Ty, open_now : O, min_rating : M, price_levels : P,
                      keyword : K]}

Bias(lat, lng, radius_m) == Some([lat |-> lat, lng |-> lng, radius_m |-> radius_m])

GoodBias == Bias(48, 2, 500)

BadBiases == {Bias(91, 0, 1), Bias(-91, 0, 1), Bias(0, 181, 1), Bias(0, -181, 1),
              Bias(0, 0, 0), Bias(0, 0, -1)}

EdgeBiases == {Bias(90, 180, 1), Bias(-90, -180, 1)}

GoodFilters ==
    Some([types |-> Some(<<"cafe">>), open_now |-> Some(FALSE),
          min_rating |-> Some(35), price_levels |-> Some(<<4, 0>>),
          keyword |-> Some(<<"a">>)])

NoFilters ==
    [types |-> None, open_now |-> None, min_rating |-> None, price_levels |-> None,
     keyword |-> None]

\* filters that break one rule each
BadFilters ==
    {Some([NoFilters EXCEPT !.types = Some(<<"cafe", "bar">>)]),
     Some([NoFilters EXCEPT !.min_rating = Some(33)]),
     Some([NoFilters EXCEPT !.min_rating = Some(-5)]),
     Some([NoFilters EXCEPT !.min_rating = Some(55)]),
     Some([NoFilters EXCEPT !.price_levels = Some(<<5>>)]),
     Some([NoFilters EXCEPT !.price_levels = Some(<<2, -1>>)]),
     Some([NoFilters EXCEPT !.keyword = Some(<<>>)])}

SearchLimits ==
    {None, Some(SearchLimitMin - 1), Some(SearchLimitMin), Some(SearchLimitMax),
     Some(SearchLimitMax + 1)}

ResolveLimits ==
    {None, Some(ResolveLimitMin - 1), Some(ResolveLimitMin), Some(ResolveLimitMax),
     Some(ResolveLimitMax + 1)}

\* the raw search bodies the handlers are invoked with: every text as query,
\* and around a good request every bias, filter, limit and page token
SearchRequests ==
    RawSearch(Text, {None}, {None}, {None}, {None})
    \cup RawSearch({<<"a">>}, {GoodBias} \cup BadBiases \cup EdgeBiases, {None},
                   {None}, {None})
    \cup RawSearch({<<"a">>}, {None}, {GoodFilters, Some(NoFilters)} \cup BadFilters,
                   {None}, {None})
    \cup RawSearch({<<"a">>}, {None}, {None}, SearchLimits, {None, Some(""), Some("tok")})
    \cup RawSearch({<<>>, <<"a">>}, {GoodBias, Bias(0, 0, 0)},
                   {GoodFilters, Some([NoFilters EXCEPT !.min_rating = Some(33)])},
                   {Some(SearchLimitMax), Some(SearchLimitMax + 1)}, {Some("tok")})

ResolveRequests == [location_text : Text, limit : ResolveLimits]

PlaceIds == {"abc123", ""}

Credentials == {None, Some(""), Some("key1"), Some("key2")}

\* bodies that are no JSON document
TextBodies == {[kind |-> "text", text |-> "<html>"], [kind |-> "text", text |-> ""]}

JsonBody(value) == [kind |-> "json", value |-> value]

GoodPlace ==
    JObj([id |-> JStr("p1"), displayName |-> JObj([text |-> JStr("Cafe")]),
          formattedAddress |-> JStr("1 Main St"),
          location |-> JObj([latitude |-> JNum(48), longitude |-> JNum(2)]),
          rating |-> JNum(45), priceLevel |-> JStr("PRICE_LEVEL_MODERATE"),
          types |-> JList(<<JStr("cafe")>>),
          currentOpeningHours |-> JObj([openNow |-> JBool(TRUE)]),
          regularOpeningHours |->
              JObj([weekdayDescriptions |-> JList(<<JStr("Mon: 9-5")>>)]),
          nationalPhoneNumber |-> JStr("555"), websiteUri |-> JStr("http://c")])

BarePlace == JObj([id |-> JStr("p2")])

\* places the normalizer fails on
BadPlaces ==
    {JStr("p3"),
     JObj([id |-> JNull]),
     JObj([id |-> JStr("p4"),
           location |-> JObj([latitude |-> JNum(91), longitude |-> JNum(0)])]),
     JObj([id |-> JStr("p5"), location |-> JStr("48,2")]),
     JObj([id |-> JStr("p6"), priceLevel |-> JList(<<JStr("PRICE_LEVEL_FREE")>>)]),
     JObj([id |-> JStr("p7"), displayName |-> JStr("Cafe")])}

\* places with a field missing, null or unrecognized
OddPlaces ==
    {JObj([displayName |-> JObj([text |-> JStr("Cafe")])]),
     JObj([id |-> JStr("p8"), location |-> JObj([latitude |-> JNum(0)])]),
     JObj([id |-> JStr("p9"), priceLevel |-> JStr("PRICE_LEVEL_UNSPECIFIED")])}

\* the documents the provider answers with
Payloads ==
    {JNull, JList(<<>>), JNum(1), JStr("ok"), JObj(<<>>),
     JObj([places |-> JNull]), JObj([places |-> JList(<<>>)]),
     JObj([places |-> JList(<<GoodPlace, BarePlace>>)]),
     JObj([places |-> JList(<<GoodPlace>>), nextPageToken |-> JStr("next")]),
     JObj([places |-> JList(<<GoodPlace>>), nextPageToken |-> JNum(7)])}
    \cup {JObj([places |-> JList(<<BarePlace, p>>)]) : p \in BadPlaces \cup OddPlaces}
    \cup {GoodPlace, BarePlace} \cup (BadPlaces \ {JStr("p3")}) \cup OddPlaces

ErrorStatuses == {400, 404, 500}

OkStatuses == {100, 200, 204, 302, 399}

Response(status_code, body) ==
    [kind |-> "response", status_code |-> status_code, body |-> body]

\* what the provider answers to a call: no answer (a transport failure), an
\* error status with some body, or a status below 400 with some body
Replies ==
    {[kind |-> "transport", failure |-> f] : f \in TransportFailures}
    \cup {Response(s, b) : s \in ErrorStatuses,
                           b \in TextBodies \cup {JsonBody(JObj(<<>>))}}
    \cup {Response(200, JsonBody(p)) : p \in Payloads}
    \cup {Response(s, b) : s \in OkStatuses,
                           b \in TextBodies
                                 \cup {JsonBody(JObj([places |-> JList(<<GoodPlace>>)])),
                                       JsonBody(GoodPlace),
                                       JsonBody(JObj([places |-> JNull]))}}

----------------------------------------------------------------------------
(* The handlers as steps: a handler runs up to its HTTP call, the provider *)
(* answers, and the handler finishes with that answer                      *)

Init ==
    /\ env_api_key \in Credentials
    /\ pc = "idle"
    /\ op = "none"
    /\ request = None
    /\ sent = <<>>
    /\ reply = None
    /\ outcome = None
    /\ log = <<>>
    /\ prev_failure = None
    /\ v_request = None
    /\ v_result = None
    /\ handlers = <<>>

\* a handler up to the point where it waits for the provider: the request is
\* rejected by validation, or the call raises before anything is sent, or
\* the HTTP request is sent
Start(operation, raw, errors, call) ==
    /\ pc = "idle"
    /\ op' = operation
    /\ request' = raw
    /\ reply' = None
    /\ IF errors # {}
       THEN /\ outcome' = Raise(RequestValidationError(errors))
            /\ log' = validation_exception_handler(raw, errors)
            /\ sent' = <<>>
            /\ pc' = "done"
       ELSE IF call.raised
       THEN /\ outcome' = call
            /\ log' = <<>>
            /\ sent' = <<>>
            /\ pc' = "done"
       ELSE /\ outcome' = None
            /\ log' = <<>>
            /\ sent' = <<call.value>>
            /\ pc' = "awaiting"
    /\ UNCHANGED <<env_api_key, prev_failure, v_request, v_result, handlers>>

\* POST /places/search
places_search(raw) ==
    Start("search", raw, SearchRequestErrors(raw),
          search_places_call(env_api_key, SearchRequest(raw)))

\* GET /places/{place_id}
places_details(place_id) ==
    Start("details", place_id, {}, get_place_details_call(env_api_key, place_id))

\* POST /locations/resolve
locations_resolve(raw) ==
    Start("resolve", raw, LocationResolveRequestErrors(raw),
          resolve_locations_call(env_api_key, LocationResolveRequest(raw)))

\* the operation's code after _request returned the response
Finish(operation, raw, response) ==
    CASE operation = "search" -> search_places(response)
      [] operation = "details" -> get_place_details(raw, response)
      [] operation = "resolve" -> resolve_locations(response)

\* _request returns or raises, and the operation runs to its end
Receive(r) ==
    /\ reply' = Some(r)
    /\ LET received == _request_receive(r)
       IN  IF received.raised
           THEN /\ outcome' = received
                /\ log' = log
           ELSE LET done == Finish(op, request, received.value)
                IN  /\ outcome' = done.result
                    /\ log' = log \o done.log
    /\ pc' = "done"
    /\ UNCHANGED <<env_api_key, op, request, sent, prev_failure, v_request, v_result, handlers>>

\* mutant: a call that failed in transport is sent again
ProviderReply_retry(r) ==
    /\ pc = "awaiting"
    /\ IF r.kind = "transport" /\ Len(sent) < 3
       THEN /\ sent' = sent \o <<sent[1]>>
            /\ UNCHANGED <<env_api_key, pc, op, request, reply, outcome, log,
                           prev_failure, v_request, v_result, handlers>>
       ELSE Receive(r)

\* the provider answers the call in flight and the handler runs to its end
ProviderReply(r) == pc = "awaiting" /\ Receive(r)

\* the failures raised for what the provider did: status 502
IsUpstreamFailure(o) ==
    o # None /\ o.raised /\ o.exc.type = "HTTPException" /\ o.exc.status_code = 502

\* the caller has the outcome; the next invocation may start
Return ==
    /\ pc = "done"
    /\ pc' = "idle"
    /\ op' = "none"
    /\ request' = None
    /\ sent' = <<>>
    /\ reply' = None
    /\ outcome' = None
    /\ log' = <<>>
    /\ prev_failure' = IF IsUpstreamFailure(outcome) THEN Some(outcome.exc)
                       ELSE prev_failure
    /\ UNCHANGED <<env_api_key, v_request, v_result, handlers>>

\* the operator sets, rotates or removes GOOGLE_PLACES_API_KEY
SetCredential(key) ==
    /\ key # env_api_key
    /\ env_api_key' = key
    /\ UNCHANGED <<pc, op, request, sent, reply, outcome, log, prev_failure,
                   v_request, v_result, handlers>>

Next ==
    \/ \E raw \in SearchRequests : places_search(raw)
    \/ \E place_id \in PlaceIds : places_details(place_id)
    \/ \E raw \in ResolveRequests : locations_resolve(raw)
    \/ \E r \in Replies : ProviderReply(r)
    \/ Return
    \/ \E key \in Credentials : SetCredential(key)

Spec == Init /\ [][Next]_vars

----------------------------------------------------------------------------
(* The validator and the query builder as functions of the raw request:    *)
(* a second specification that runs them over a wider set of requests      *)

WideFilters ==
    {None}
    \cup RawFilters({None, Some(<<>>), Some(<<"cafe">>), Some(<<"cafe", "bar">>)},
                    {None, Some(TRUE)},
                    {None, Some(0), Some(33), Some(53)},
                    {None, Some(<<1>>), Some(<<5, 1>>)},
                    {None, Some(<<"a">>)})

\* one filter varied over its whole neighbourhood, the rest of the body good
MaxListLen == 2

Lists(S) == UNION {[1..n -> S] : n \in 0..MaxListLen}

MinRatings == {None} \cup {Some(m) : m \in (RatingMin - 5)..(RatingMax + 5)}

PriceLevelLists == {None} \cup {Some(p) : p \in Lists(-1..5)}

TypeLists == {None} \cup {Some(t) : t \in Lists({"cafe", "bar"})}
                    \cup {Some(<<"cafe", "bar", "gym">>)}

Keywords == {None} \cup {Some(k) : k \in Text}

FilterRequests ==
    RawSearch({<<"a">>}, {None},
              RawFilters({None}, {None}, MinRatings, {None}, {None})
              \cup RawFilters({None}, {None}, {None}, PriceLevelLists, {None})
              \cup RawFilters(TypeLists, {None}, {None}, {None}, {None}),
              {None}, {None})
    \cup RawSearch(Text, {None},
                   {None} \cup RawFilters({None}, {None}, {None}, {None}, Keywords),
                   {None}, {None})

WideSearchRequests ==
    SearchRequests
    \cup RawSearch(Text, {None, GoodBias, Bias(0, 0, 0)}, WideFilters, SearchLimits,
                   {None, Some("tok")})
    \cup FilterRequests

RequestInit ==
    /\ env_api_key = None
    /\ pc = "idle"
    /\ op = "none"
    /\ request = None
    /\ sent = <<>>
    /\ reply = None
    /\ outcome = None
    /\ log = <<>>
    /\ prev_failure = None
    /\ v_request \in {[op |-> "search", raw |-> raw] : raw \in WideSearchRequests}
                     \cup {[op |-> "resolve", raw |-> raw] : raw \in ResolveRequests}
    /\ v_result = None
    /\ handlers = <<>>

\* pydantic validates the body; the builder runs on the validated model only
ValidateAndBuild(errors, model, body) ==
    /\ v_result = None
    /\ v_result' = IF errors # {}
                   THEN [errors |-> errors, model |-> None, body |-> None]
                   ELSE [errors |-> {}, model |-> Some(model), body |-> Some(body)]
    /\ UNCHANGED <<env_api_key, pc, op, request, sent, reply, outcome, log,
                   prev_failure, v_request, handlers>>

ValidateSearch ==
    /\ v_request.op = "search"
    /\ ValidateAndBuild(SearchRequestErrors(v_request.raw),
                        SearchRequest(v_request.raw),
                        _build_search_body(SearchRequest(v_request.raw)))

ValidateResolve ==
    /\ v_request.op = "resolve"
    /\ ValidateAndBuild(LocationResolveRequestErrors(v_request.raw),
                        LocationResolveRequest(v_request.raw),
                        resolve_body(LocationResolveRequest(v_request.raw)))

RequestNext == ValidateSearch \/ ValidateResolve

SpecRequest == RequestInit /\ [][RequestNext]_vars

----------------------------------------------------------------------------
(* The error classes of the specification, as the exceptions of the code *)

IsHTTPException(o, status_code, text) ==
    /\ o # None
    /\ o.raised
    /\ o.exc.type = "HTTPException"
    /\ o.exc.status_code = status_code
    /\ o.exc.detail.text = text

IsValidationError(o) ==
    o # None /\ o.raised /\ o.exc.type = "RequestValidationError"

IsConfigurationError(o) ==
    IsHTTPException(o, 500, "GOOGLE_PLACES_API_KEY is not set.")

IsUpstreamHTTPError(o) == IsHTTPException(o, 502, "Google Places API error (%s).")

IsUpstreamProtocolError(o) == IsHTTPException(o, 502, "Invalid Google response.")

IsUnavailableError(o) == IsHTTPException(o, 502, "Google Places API unavailable.")

\* a typed response record was returned
IsResponse(o) == o # None /\ ~o.raised

Running == op # "none"

\* the rules of the validator in the words of the specification
BadCoordinate(b) == b.lat < -90 \/ b.lat > 90 \/ b.lng < -180 \/ b.lng > 180

BadMinRating(m) == m < 0 \/ m > 50 \/ m % 5 # 0

BadPriceLevels(p) == \E i \in 1..Len(p) : p[i] \notin {0, 1, 2, 3, 4}

ViolatesFilterRule(f) ==
    \/ f.types # None /\ Len(f.types.v) > 1
    \/ f.min_rating # None /\ BadMinRating(f.min_rating.v)
    \/ f.price_levels # None /\ BadPriceLevels(f.price_levels.v)
    \/ f.keyword # None /\ f.keyword.v = <<>>

ViolatesSearchRule(raw) ==
    \/ raw.query = <<>>
    \/ raw.limit # None /\ (raw.limit.v < 1 \/ raw.limit.v > 20)
    \/ raw.location_bias # None
         /\ (raw.location_bias.v.radius_m <= 0 \/ BadCoordinate(raw.location_bias.v))
    \/ raw.filters # None /\ ViolatesFilterRule(raw.filters.v)

ViolatesResolveRule(raw) ==
    \/ raw.location_text = <<>>
    \/ raw.limit # None /\ (raw.limit.v < 1 \/ raw.limit.v > 10)

ViolatesRule ==
    \/ op = "search" /\ ViolatesSearchRule(request)
    \/ op = "resolve" /\ ViolatesResolveRule(request)

NoCredential == env_api_key = None \/ env_api_key.v = ""

----------------------------------------------------------------------------
(* Claims *)

\* C1: an invocation of any of the three operations that passes validation
\* while the credential is unset or empty ends at once with
\* ConfigurationError, and no HTTP request is sent during that invocation.
C1_MissingCredentialFailsFast ==
    /\ [][(pc = "idle" /\ pc' # "idle" /\ NoCredential /\ ~ViolatesRule')
            => (pc' = "done" /\ IsConfigurationError(outcome') /\ sent' = <<>>)]_vars
    /\ [](IsConfigurationError(outcome) => sent = <<>>)

C1_Witness ==
    /\ pc = "done"
    /\ op = "search"
    /\ env_api_key = Some("")
    /\ IsConfigurationError(outcome)
    /\ sent = <<>>

\* C2: a request that violates a validation rule ends with ValidationError
\* and no HTTP request is sent for it, whatever the credential is.
C2_InvalidRequestNeverSent ==
    (Running /\ ViolatesRule) => (pc = "done" /\ IsValidationError(outcome) /\ sent = <<>>)

C2_Witness ==
    /\ pc = "done"
    /\ op = "search"
    /\ request.filters # None
    /\ request.filters.v.min_rating = Some(33)
    /\ env_api_key = Some("key1")
    /\ IsValidationError(outcome)
    /\ sent = <<>>

\* C3: an invocation sends at most one HTTP request, and once it has failed
\* it sends nothing more and its failure stays its outcome until it returns.
C3_AtMostOneCallNoRetry ==
    /\ [](Len(sent) <= 1)
    /\ [][(outcome # None /\ outcome.raised)
            => (pc' = "idle" \/ (outcome' = outcome /\ sent' = sent))]_vars

C3_Witness ==
    /\ pc = "done"
    /\ Len(sent) = 1
    /\ reply # None
    /\ reply.v.kind = "transport"
    /\ outcome.raised

\* C4: a provider status s >= 400 ends the invocation with UpstreamHTTPError
\* carrying s, and no result record is returned.
C4_ErrorStatusIsUpstreamHTTPError ==
    (pc = "done" /\ reply # None /\ reply.v.kind = "response"
       /\ reply.v.status_code >= 400)
    => /\ IsUpstreamHTTPError(outcome)
       /\ outcome.exc.detail.arg = Some(reply.v.status_code)
       /\ ~IsResponse(outcome)

C4_Witness ==
    /\ pc = "done"
    /\ op = "details"
    /\ reply = Some(Response(404, JsonBody(JObj(<<>>))))
    /\ IsUpstreamHTTPError(outcome)
    /\ outcome.exc.detail.arg = Some(404)

\* C5: a status below 400 with a body that is no JSON ends the invocation
\* with UpstreamProtocolError, and no result record is returned.
C5_BadBodyIsUpstreamProtocolError ==
    (pc = "done" /\ reply # None /\ reply.v.kind = "response"
       /\ reply.v.status_code < 400 /\ reply.v.body.kind # "json")
    => (IsUpstreamProtocolError(outcome) /\ ~IsResponse(outcome))

C5_Witness ==
    /\ pc = "done"
    /\ op = "details"
    /\ reply # None
    /\ reply.v.kind = "response"
    /\ reply.v.status_code = 204
    /\ reply.v.body.kind = "text"
    /\ IsUpstreamProtocolError(outcome)

\* C6: every transport failure of the call, of whatever kind and in whatever
\* operation, ends the invocation with the one same UnavailableError.
C6_TransportFailureIsUnavailable ==
    (pc = "done" /\ reply # None /\ reply.v.kind = "transport")
    => outcome = Raise(HTTPException(502, "Google Places API unavailable.", None))

C6_Witness ==
    /\ pc = "done"
    /\ op = "resolve"
    /\ reply # None
    /\ reply.v.kind = "transport"
    /\ reply.v.failure = "ConnectError"
    /\ IsUnavailableError(outcome)


\* the provider's reply made the invocation fail: no answer, an error status,
\* or a body that is no JSON
UpstreamFailed ==
    /\ pc = "done"
    /\ reply # None
    /\ \/ reply.v.kind = "transport"
       \/ reply.v.status_code >= 400
       \/ reply.v.body.kind # "json"

\* what the caller sees of such a failure, by its kind and status code alone
VisibleFailure(r) ==
    IF r.kind = "transport"
    THEN [type |-> "HTTPException", status_code |-> 502,
          detail |-> [text |-> "Google Places API unavailable.", arg |-> None]]
    ELSE IF r.status_code >= 400
    THEN [type |-> "HTTPException", status_code |-> 502,
          detail |-> [text |-> "Google Places API error (%s).",
                      arg |-> Some(r.status_code)]]
    ELSE [type |-> "HTTPException", status_code |-> 502,
          detail |-> [text |-> "Invalid Google response.", arg |-> None]]

\* C7 as stated: upstream failures look the same to the caller, whatever
\* their kind and status code, and the status code is in the log only.
C7_UniformUpstreamFailure ==
    UpstreamFailed
    => /\ outcome.raised
       /\ outcome.exc.detail.arg = None
       /\ prev_failure # None => outcome.exc = prev_failure.v

\* C7 amended: every upstream failure reaches the caller with status 502 and
\* a detail fixed by the failure's kind and, for a status >= 400, the
\* provider's status code; the raw body is in the log only, so two failures
\* that differ in the body alone look the same.
C7_UniformStatusBodyLoggedOnly ==
    UpstreamFailed
    => /\ outcome.raised
       /\ outcome.exc.status_code = 502
       /\ outcome.exc = VisibleFailure(reply.v)
       /\ prev_failure # None => prev_failure.v.status_code = outcome.exc.status_code
       /\ reply.v.kind = "response"
            => \E i \in 1..Len(log) :
                  /\ log[i].body = Some(reply.v.body)
                  /\ reply.v.status_code >= 400
                       => log[i].status_code = Some(reply.v.status_code)

C7_Witness ==
    /\ UpstreamFailed
    /\ reply.v.kind = "response"
    /\ reply.v.status_code = 500
    /\ prev_failure # None
    /\ prev_failure.v.detail.arg = Some(404)
    /\ outcome.exc # prev_failure.v

\* C8: every invocation ends with a typed response record or one of the
\* five classified errors.
C8_EveryOutcomeClassified ==
    pc = "done"
    => \/ IsResponse(outcome)
       \/ IsValidationError(outcome)
       \/ IsConfigurationError(outcome)
       \/ IsUpstreamHTTPError(outcome)
       \/ IsUpstreamProtocolError(outcome)
       \/ IsUnavailableError(outcome)

\* C9: a validated SearchRequest has 1 <= limit <= 20, 10 when omitted, and
\* a validated LocationResolveRequest 1 <= limit <= 10, 5 when omitted; the
\* body built from either has that limit as its pageSize.
C9_LimitRangeAndPageSize ==
    (v_result # None /\ v_result.errors = {})
    => LET limit == v_result.model.v.limit
           given == v_request.raw.limit
       IN  /\ v_result.body.v.pageSize = limit
           /\ given # None => limit = given.v
           /\ v_request.op = "search"
                => (limit \in 1..20 /\ (given = None => limit = 10))
           /\ v_request.op = "resolve"
                => (limit \in 1..10 /\ (given = None => limit = 5))

C9_Witness ==
    /\ v_result # None
    /\ v_result.errors = {}
    /\ v_request.op = "search"
    /\ v_request.raw.limit = None
    /\ v_request.raw.filters # None
    /\ v_result.body.v.pageSize = 10

\* the free text of the request under validation
RequestText ==
    IF v_request.op = "search" THEN v_request.raw.query
    ELSE v_request.raw.location_text

TextField == IF v_request.op = "search" THEN "query" ELSE "location_text"

----------------------------------------------------------------------------
(* The response normalizer as a function of the provider's document: a     *)
(* third specification, in which a handler that has sent a good request    *)
(* receives a status 200 with every shape of place                         *)

\* the keys of a place that feed the optional fields of each operation's record
OptionalKeys(operation) ==
    CASE operation = "search" ->
           {"displayName", "formattedAddress", "location", "rating", "priceLevel",
            "types", "currentOpeningHours"}
      [] operation = "resolve" ->
           {"displayName", "formattedAddress", "location", "types"}
      [] operation = "details" ->
           {"displayName", "formattedAddress", "location", "rating", "priceLevel",
            "types", "regularOpeningHours", "currentOpeningHours",
            "nationalPhoneNumber", "websiteUri"}

Presence == {"missing", "null", "given"}

\* the places in which each key is missing, null or as in GoodPlace
PresencePlaces(keys) ==
    {JObj([key \in {k \in keys : c[k] # "missing"} |->
             IF c[key] = "null" THEN JNull ELSE GoodPlace.fields[key]])
       : c \in [keys -> Presence]}

Location(latitude, longitude) ==
    JObj([latitude |-> latitude, longitude |-> longitude])

\* further values of a key: empty, partial, zero, at and beyond the ranges,
\* unrecognized, of another type
OddValues(key) ==
    CASE key = "location" ->
           {JObj(<<>>), JObj([latitude |-> JNum(48)]), JObj([longitude |-> JNum(2)]),
            Location(JNull, JNum(2)), Location(JNum(48), JNull),
            Location(JNull, JNull), Location(JNum(0), JNum(0)),
            Location(JNum(0), JNum(2)), Location(JNum(48), JNum(0)),
            Location(JNum(LatMax), JNum(LngMax)), Location(JNum(LatMin), JNum(LngMin)),
            Location(JNum(LatMax + 1), JNum(0)), Location(JNum(LatMin - 1), JNum(0)),
            Location(JNum(0), JNum(LngMax + 1)), Location(JNum(0), JNum(LngMin - 1)),
            Location(JStr("48"), JNum(2)), JStr("48,2"), JList(<<JNum(48), JNum(2)>>)}
      [] key = "priceLevel" ->
           {JStr(_PRICE_LEVEL_TO_ENUM[v]) : v \in DOMAIN _PRICE_LEVEL_TO_ENUM}
           \cup {JStr(""), JStr("PRICE_LEVEL_UNSPECIFIED"), JStr("cheap"), JNum(2),
                 JList(<<JStr("PRICE_LEVEL_FREE")>>)}
      [] key = "displayName" ->
           {JObj(<<>>), JObj([text |-> JNull]), JObj([languageCode |-> JStr("en")]),
            JStr("Cafe")}
      [] key = "currentOpeningHours" ->
           {JObj(<<>>), JObj([openNow |-> JNull]), JObj([openNow |-> JBool(FALSE)]),
            JBool(TRUE)}
      [] key = "regularOpeningHours" ->
           {JObj(<<>>), JObj([weekdayDescriptions |-> JNull]),
            JObj([weekdayDescriptions |-> JList(<<>>)]), JList(<<JStr("Mon: 9-5")>>)}
      [] key = "types" -> {JList(<<>>), JList(<<JStr("cafe"), JStr("bar")>>), JStr("cafe")}
      [] key = "rating" -> {JNum(0), JNum(50), JStr("4.5")}
      [] key = "id" -> {JNull, JStr(""), JNum(7)}
      [] OTHER -> {JStr(""), JNum(1)}

\* GoodPlace and BarePlace with one key set to one of its further values
VariedPlaces(keys) ==
    UNION {{JObj((key :> v)
                 @@ [k \in DOMAIN base.fields \cap (keys \cup {"id"}) |->
                       base.fields[k]])
              : v \in OddValues(key), base \in {GoodPlace, BarePlace}}
             : key \in keys \cup {"id"}}

\* the places of an operation: with an id, and a few without
Places(operation) ==
    LET keys == OptionalKeys(operation)
        known == {JObj(("id" :> JStr("p1")) @@ p.fields) : p \in PresencePlaces(keys)}
    IN  known \cup VariedPlaces(keys)
        \cup {JObj([k \in DOMAIN p.fields \ {"id"} |-> p.fields[k]])
                : p \in VariedPlaces(keys)}

\* the documents a text search answers with
ListPayloads(operation) ==
    {JObj([places |-> JList(<<p>>)]) : p \in Places(operation)}
    \cup {JObj([places |-> JList(<<GoodPlace, p>>), nextPageToken |-> t])
            : p \in VariedPlaces(OptionalKeys(operation)),
              t \in {JNull, JStr("next")}}
    \cup Payloads

SearchPayloads == ListPayloads("search")

DetailsPayloads == Places("details") \cup Payloads

ResolvePayloads == ListPayloads("resolve")

\* the good request of each operation
GoodRequest(operation) ==
    CASE operation = "search" ->
           [query |-> <<"a">>, location_bias |-> None, filters |-> None,
            limit |-> None, page_token |-> None]
      [] operation = "details" -> "abc123"
      [] operation = "resolve" -> [location_text |-> <<"a">>, limit |-> None]

GoodCall(operation, api_key) ==
    CASE operation = "search" ->
           search_places_call(api_key, SearchRequest(GoodRequest(operation)))
      [] operation = "details" ->
           get_place_details_call(api_key, GoodRequest(operation))
      [] operation = "resolve" ->
           resolve_locations_call(api_key,
                                  LocationResolveRequest(GoodRequest(operation)))

\* a handler of each operation waits for the answer to its good request
NormalizeInit ==
    /\ env_api_key = Some("key1")
    /\ pc = "awaiting"
    /\ op \in {"search", "details", "resolve"}
    /\ request = GoodRequest(op)
    /\ sent = <<GoodCall(op, env_api_key).value>>
    /\ reply = None
    /\ outcome = None
    /\ log = <<>>
    /\ prev_failure = None
    /\ v_request = None
    /\ v_result = None
    /\ handlers = <<>>

\* the documents each operation is answered with
NormalizePayloads(operation) ==
    CASE operation = "search" -> SearchPayloads
      [] operation = "details" -> DetailsPayloads
      [] operation = "resolve" -> ResolvePayloads

\* the handler in flight receives a status 200 with a JSON document and
\* runs to its end
NormalizeNext ==
    /\ pc = "awaiting"
    /\ \E payload \in NormalizePayloads(op) :
           ProviderReply(Response(200, JsonBody(payload)))

SpecNormalize == NormalizeInit /\ [][NormalizeNext]_vars

----------------------------------------------------------------------------
(* Claims on the request validator and the query builder (SpecRequest) *)

\* the validator has run on a search body
SearchValidated == v_request.op = "search" /\ v_result # None

Accepted == v_result # None /\ v_result.errors = {}

\* the filters of a raw search body; omitted filters constrain nothing
FiltersOf(raw) == IF raw.filters = None THEN NoFilters ELSE raw.filters.v

FiltersLoc == <<"body", "filters">>

\* the rules of the request contract that a raw body violates, each with the
\* field it is a rule of
ViolatedSearchRules(raw) ==
    LET f == FiltersOf(raw)
        b == raw.location_bias
    IN  (IF raw.query = <<>> THEN {<<"non-empty", <<"body", "query">>>>} ELSE {})
        \cup (IF raw.limit # None /\ (raw.limit.v < 1 \/ raw.limit.v > 20)
              THEN {<<"range", <<"body", "limit">>>>} ELSE {})
        \cup (IF b # None /\ (b.v.lat < -90 \/ b.v.lat > 90)
              THEN {<<"range", <<"body", "location_bias", "lat">>>>} ELSE {})
        \cup (IF b # None /\ (b.v.lng < -180 \/ b.v.lng > 180)
              THEN {<<"range", <<"body", "location_bias", "lng">>>>} ELSE {})
        \cup (IF b # None /\ b.v.radius_m <= 0
              THEN {<<"positive", <<"body", "location_bias", "radius_m">>>>} ELSE {})
        \cup (IF f.types # None /\ Len(f.types.v) > 1
              THEN {<<"at most one", FiltersLoc \o <<"types">>>>} ELSE {})
        \cup (IF f.min_rating # None /\ (f.min_rating.v < 0 \/ f.min_rating.v > 50)
              THEN {<<"range", FiltersLoc \o <<"min_rating">>>>} ELSE {})
        \cup (IF f.min_rating # None /\ f.min_rating.v % 5 # 0
              THEN {<<"0.5 increments", FiltersLoc \o <<"min_rating">>>>} ELSE {})
        \cup (IF f.price_levels # None /\ BadPriceLevels(f.price_levels.v)
              THEN {<<"domain", FiltersLoc \o <<"price_levels">>>>} ELSE {})
        \cup (IF f.keyword # None /\ f.keyword.v = <<>>
              THEN {<<"non-empty", FiltersLoc \o <<"keyword">>>>} ELSE {})

ViolatedResolveRules(raw) ==
    (IF raw.location_text = <<>>
     THEN {<<"non-empty", <<"body", "location_text">>>>} ELSE {})
    \cup (IF raw.limit # None /\ (raw.limit.v < 1 \/ raw.limit.v > 10)
          THEN {<<"range", <<"body", "limit">>>>} ELSE {})

ViolatedRules ==
    IF v_request.op = "search" THEN ViolatedSearchRules(v_request.raw)
    ELSE ViolatedResolveRules(v_request.raw)

ViolatingFields == {r[2] : r \in ViolatedRules}

ReportedFields == {e.loc : e \in v_result.errors}

\* the rules a body violates on fields other than the given one
OtherViolations(field) == {r \in ViolatedRules : r[2] # FiltersLoc \o <<field>>}

Reported(field) == FiltersLoc \o <<field>> \in ReportedFields

\* C11 (as stated): a failing validation lists every violated rule: a request
\* violating k distinct rules, across fields or on the same field, yields k
\* reported violations.
C11_AllViolationsListed ==
    v_result # None => Cardinality(v_result.errors) = Cardinality(ViolatedRules)

\* C11 (amended): a failing validation lists every field that violates a
\* rule, each exactly once: violations on different fields are all reported,
\* and two rules violated on the same field are reported as one, the range.
C11_EveryViolatingFieldListedOnce ==
    v_result # None =>
        /\ ReportedFields = ViolatingFields
        /\ Cardinality(v_result.errors) = Cardinality(ViolatingFields)
        /\ \A e \in v_result.errors :
               /\ <<"range", e.loc>> \in ViolatedRules
               /\ <<"0.5 increments", e.loc>> \in ViolatedRules
               => e.type \in {"greater_than_equal", "less_than_equal"}

C11_Witness ==
    /\ SearchValidated
    /\ FiltersOf(v_request.raw).min_rating = Some(53)
    /\ Cardinality(ViolatedRules) = 5
    /\ Cardinality(v_result.errors) = 4

\* C12: Filters.types with more than one element is always rejected,
\* whatever the other fields are; types absent, empty or of length one is
\* accepted.
C12_TypesAtMostOne ==
    SearchValidated =>
        LET types == FiltersOf(v_request.raw).types
            many == types # None /\ Len(types.v) > 1
        IN  /\ many => ~Accepted /\ Reported("types")
            /\ ~many => ~Reported("types")
            /\ ~many /\ OtherViolations("types") = {} => Accepted

C12_Witness ==
    /\ SearchValidated
    /\ FiltersOf(v_request.raw).types = Some(<<"cafe", "bar">>)
    /\ FiltersOf(v_request.raw).min_rating = Some(0)
    /\ v_request.raw.query # <<>>
    /\ Cardinality(v_result.errors) = 1
    /\ Reported("types")

\* C13: Filters.min_rating is accepted exactly when it is absent or a value
\* in [0,5] that is a multiple of 0.5: 0.0, 3.5 and 5.0 are accepted; 3.3,
\* any value below 0 and any value above 5 are rejected.
C13_MinRatingDomain ==
    SearchValidated =>
        LET m == FiltersOf(v_request.raw).min_rating
            good == m = None \/ (m.v >= 0 /\ m.v <= 50 /\ m.v % 5 = 0)
        IN  /\ good <=> ~Reported("min_rating")
            /\ ~good => ~Accepted
            /\ good /\ OtherViolations("min_rating") = {} => Accepted
            /\ m \in {Some(0), Some(35), Some(50)} => ~Reported("min_rating")
            /\ m # None /\ (m.v = 33 \/ m.v < 0 \/ m.v > 50) => ~Accepted

C13_Witness ==
    /\ SearchValidated
    /\ FiltersOf(v_request.raw).min_rating = Some(33)
    /\ v_result.errors =
         {ValueError(FiltersLoc \o <<"min_rating">>,
                     "min_rating must be in 0.5 increments.")}

\* C14: Filters.price_levels is accepted exactly when it is absent or every
\* element is in {0,1,2,3,4}; a list containing any other integer is rejected
\* with a message naming the valid domain, even if its other elements are
\* valid.
C14_PriceLevelsDomain ==
    SearchValidated =>
        LET p == FiltersOf(v_request.raw).price_levels
            good == p = None \/ \A i \in 1..Len(p.v) : p.v[i] \in {0, 1, 2, 3, 4}
        IN  /\ good <=> ~Reported("price_levels")
            /\ ~good => ~Accepted
            /\ good /\ OtherViolations("price_levels") = {} => Accepted
            /\ \A e \in v_result.errors :
                   e.loc = FiltersLoc \o <<"price_levels">>
                   => e.msg = "price_levels must be integers between 0 and 4."

C14_Witness ==
    /\ SearchValidated
    /\ FiltersOf(v_request.raw).price_levels = Some(<<2, -1>>)
    /\ ~Accepted
    /\ Reported("price_levels")

\* the vendor names of the price levels
PriceLevelNames == {_PRICE_LEVEL_TO_ENUM[v] : v \in DOMAIN _PRICE_LEVEL_TO_ENUM}

\* the levels a name decodes to
DecodedLevels(name) == {e[2] : e \in {d \in _ENUM_TO_PRICE_LEVEL : d[1] = name}}

\* C15: the price-level tables are a bijection between {0,1,2,3,4} and
\* exactly five vendor names: decoding the encoding of every level returns
\* it, encoding the decoding of every recognized name returns that name, and
\* no integer outside {0,1,2,3,4} reaches the encoder from a validated request.
C15_PriceLevelBijection ==
    /\ DOMAIN _PRICE_LEVEL_TO_ENUM = {0, 1, 2, 3, 4}
    /\ Cardinality(PriceLevelNames) = 5
    /\ \A v \in {0, 1, 2, 3, 4} :
           /\ DecodedLevels(_PRICE_LEVEL_TO_ENUM[v]) = {v}
           /\ _parse_price_level(JStr(_PRICE_LEVEL_TO_ENUM[v])) = Ok(Some(v))
    /\ \A name \in PriceLevelNames :
           \A v \in DecodedLevels(name) : _PRICE_LEVEL_TO_ENUM[v] = name
    /\ SearchValidated /\ Accepted =>
           LET p == FiltersOf(v_request.raw).price_levels
               body == v_result.body.v
           IN  /\ p # None => \A i \in 1..Len(p.v) : p.v[i] \in {0, 1, 2, 3, 4}
               /\ "priceLevels" \in DOMAIN body =>
                      /\ Len(body.priceLevels) = Len(p.v)
                      /\ \A i \in 1..Len(p.v) :
                             /\ body.priceLevels[i] \in PriceLevelNames
                             /\ DecodedLevels(body.priceLevels[i]) = {p.v[i]}

C15_Witness ==
    /\ SearchValidated
    /\ Accepted
    /\ FiltersOf(v_request.raw).price_levels = Some(<<4, 0>>)
    /\ v_result.body.v.priceLevels
         = <<"PRICE_LEVEL_VERY_EXPENSIVE", "PRICE_LEVEL_FREE">>

\* t is s without its leading and trailing blanks
IsTrimOf(t, s) ==
    \E i \in 1..(Len(s) + 1) : \E j \in 0..Len(s) :
        /\ t = SubSeq(s, i, j)
        /\ \A k \in 1..(i - 1) : s[k] = " "
        /\ \A k \in (j + 1)..Len(s) : s[k] = " "
        /\ t # <<>> => t[1] # " " /\ t[Len(t)] # " "

\* C16: for every validated SearchRequest, the body's textQuery is the query
\* followed by one space and the keyword, then trimmed, when a keyword filter
\* is present, and is the query unchanged when there is no Filters or no
\* keyword.
C16_TextQueryComposition ==
    SearchValidated /\ Accepted =>
        LET raw == v_request.raw
            keyword == FiltersOf(raw).keyword
            textQuery == v_result.body.v.textQuery
        IN  IF keyword # None
            THEN IsTrimOf(textQuery, raw.query \o <<" ">> \o keyword.v)
            ELSE textQuery = raw.query

C16_Witness ==
    /\ SearchValidated
    /\ Accepted
    /\ v_request.raw.query = <<" ", "a">>
    /\ FiltersOf(v_request.raw).keyword = Some(<<"a", " ">>)
    /\ v_result.body.v.textQuery = <<"a", " ", "a">>

----------------------------------------------------------------------------
(* Claims on the response normalizer (SpecNormalize) *)

\* an operation has run on a status 200 with a JSON document
Normalized ==
    /\ pc = "done"
    /\ reply # None
    /\ reply.v.kind = "response"
    /\ reply.v.status_code = 200
    /\ reply.v.body.kind = "json"

Document == reply.v.body.value

Missing(obj, key) == key \notin DOMAIN obj.fields

\* the key is missing or null
Absent(obj, key) == Missing(obj, key) \/ obj.fields[key] = JNull

IsStrList(j) == j.t = "list" /\ \A i \in 1..Len(j.items) : j.items[i].t = "str"

\* a coordinate of the domain of the specification
InCoordinateDomain(component, n) ==
    IF component = "latitude" THEN n >= -90 /\ n <= 90 ELSE n >= -180 /\ n <= 180

\* the source key of each optional output field
SourceKey(field) ==
    CASE field = "name" -> "displayName"
      [] field = "address" -> "formattedAddress"
      [] field = "location" -> "location"
      [] field = "rating" -> "rating"
      [] field = "price_level" -> "priceLevel"
      [] field = "types" -> "types"
      [] field = "open_now" -> "currentOpeningHours"
      [] field = "phone" -> "nationalPhoneNumber"
      [] field = "website" -> "websiteUri"
      [] field = "hours" -> "regularOpeningHours"

OptionalOutputFields ==
    {"name", "address", "location", "rating", "price_level", "types", "open_now",
     "phone", "website", "hours"}

\* the value of a source key has the shape the provider documents for it;
\* ranged: its coordinates also lie in the coordinate domain
WellFormed(key, j, ranged) ==
    CASE key \in {"formattedAddress", "nationalPhoneNumber", "websiteUri",
                  "priceLevel"} -> j.t = "str"
      [] key = "rating" -> j.t = "num"
      [] key = "types" -> IsStrList(j)
      [] key = "displayName" ->
           j.t = "obj" /\ (Absent(j, "text") \/ j.fields["text"].t = "str")
      [] key = "location" ->
           /\ j.t = "obj"
           /\ \A c \in {"latitude", "longitude"} :
                  \/ Absent(j, c)
                  \/ /\ j.fields[c].t = "num"
                     /\ ranged => InCoordinateDomain(c, j.fields[c].n)
      [] key = "currentOpeningHours" ->
           j.t = "obj" /\ (Absent(j, "openNow") \/ j.fields["openNow"].t = "bool")
      [] key = "regularOpeningHours" ->
           /\ j.t = "obj"
           /\ \/ Absent(j, "weekdayDescriptions")
              \/ IsStrList(j.fields["weekdayDescriptions"])

\* a place whose optional source keys are each missing, null or well-formed,
\* around an id that is a string or missing
TamePlace(place, ranged) ==
    /\ place.t = "obj"
    /\ Missing(place, "id") \/ place.fields["id"].t = "str"
    /\ \A field \in OptionalOutputFields :
           \/ Absent(place, SourceKey(field))
           \/ WellFormed(SourceKey(field), place.fields[SourceKey(field)], ranged)

TameDocument(ranged) ==
    IF op = "details" THEN TamePlace(Document, ranged)
    ELSE /\ Document.t = "obj"
         /\ \/ Missing(Document, "places")
            \/ /\ Document.fields["places"].t = "list"
               /\ \A i \in 1..Len(Document.fields["places"].items) :
                      TamePlace(Document.fields["places"].items[i], ranged)
         /\ \/ Absent(Document, "nextPageToken")
            \/ Document.fields["nextPageToken"].t = "str"

\* the places of the document and, of an outcome that is no exception, the
\* records made of them
SourcePlaces ==
    IF op = "details" THEN <<Document>>
    ELSE IF Document.t = "obj" /\ ~Missing(Document, "places")
            /\ Document.fields["places"].t = "list"
    THEN Document.fields["places"].items
    ELSE <<>>

ResultRecords == IF op = "details" THEN <<outcome.value>> ELSE outcome.value.results

\* C17: for every provider JSON object in which each optional source key is
\* missing, null or well-formed, normalization of every operation returns a
\* record and raises nothing, and each optional output field (name, address,
\* location, rating, price level, types, open-now, phone, website, hours) is
\* absent whenever its source key is missing or null.
C17_MissingOrNullIsAbsent ==
    Normalized /\ TameDocument(TRUE) =>
        /\ ~outcome.raised
        /\ Len(ResultRecords) = Len(SourcePlaces)
        /\ op = "details" =>
               DOMAIN outcome.value = OptionalOutputFields \cup {"place_id"}
        /\ \A i \in 1..Len(SourcePlaces) :
               \A field \in DOMAIN ResultRecords[i] \ {"place_id"} :
                   /\ field \in OptionalOutputFields
                   /\ Absent(SourcePlaces[i], SourceKey(field))
                      => ResultRecords[i][field] = None

C17_Witness ==
    /\ Normalized
    /\ op = "details"
    /\ TameDocument(TRUE)
    /\ Missing(Document, "location")
    /\ ~Missing(Document, "rating") /\ Document.fields["rating"] = JNull
    /\ ~outcome.raised
    /\ outcome.value.location = None
    /\ outcome.value.rating = None
    /\ outcome.value.name = Some("Cafe")

\* the vendor location carries both a latitude and a longitude
HasBoth(place) ==
    /\ ~Absent(place, "location")
    /\ place.fields["location"].t = "obj"
    /\ ~Absent(place.fields["location"], "latitude")
    /\ ~Absent(place.fields["location"], "longitude")

\* C18: the normalized Coordinate is present exactly when the vendor location
\* carries both a latitude and a longitude (including the value 0 for
\* either); when either is missing or null the whole Coordinate is absent, so
\* no result ever holds a Coordinate with only one of the two components.
C18_CoordinateWholeOrAbsent ==
    Normalized /\ ~outcome.raised =>
        /\ Len(ResultRecords) = Len(SourcePlaces)
        /\ \A i \in 1..Len(SourcePlaces) :
               LET location == ResultRecords[i].location
                   source == SourcePlaces[i].fields["location"]
               IN  /\ location # None <=> HasBoth(SourcePlaces[i])
                   /\ location # None =>
                          /\ DOMAIN location.v = {"lat", "lng"}
                          /\ location.v.lat = source.fields["latitude"].n
                          /\ location.v.lng = source.fields["longitude"].n

C18_Witness ==
    /\ Normalized
    /\ op = "search"
    /\ ~outcome.raised
    /\ Len(SourcePlaces) = 1
    /\ HasBoth(SourcePlaces[1])
    /\ SourcePlaces[1].fields["location"] = Location(JNum(0), JNum(2))
    /\ outcome.value.results[1].location = Some([lat |-> 0, lng |-> 2])

\* the price level a place names; null when the key is missing
PriceLevelOf(place) ==
    IF Absent(place, "priceLevel") THEN JNull ELSE place.fields["priceLevel"]

\* the fixed name -> integer table of the specification
ExpectedLevel(j) ==
    IF j.t # "str" THEN None
    ELSE CASE j.s = "PRICE_LEVEL_FREE" -> Some(0)
           [] j.s = "PRICE_LEVEL_INEXPENSIVE" -> Some(1)
           [] j.s = "PRICE_LEVEL_MODERATE" -> Some(2)
           [] j.s = "PRICE_LEVEL_EXPENSIVE" -> Some(3)
           [] j.s = "PRICE_LEVEL_VERY_EXPENSIVE" -> Some(4)
           [] OTHER -> None

\* C19: price-level decoding in the normalizer never fails: a recognized
\* vendor name yields its integer in {0,1,2,3,4}, and an absent, null, empty
\* or unrecognized name yields an absent price_level, so every price_level in
\* any result is either absent or in {0,1,2,3,4}.
C19_PriceLevelDecodingTotal ==
    Normalized /\ op # "resolve" =>
        /\ \A i \in 1..Len(SourcePlaces) :
               SourcePlaces[i].t = "obj"
               /\ PriceLevelOf(SourcePlaces[i]).t \in {"null", "str"}
               => ~_parse_price_level(PriceLevelOf(SourcePlaces[i])).raised
        /\ TameDocument(TRUE) => ~outcome.raised
        /\ ~outcome.raised =>
               \A i \in 1..Len(SourcePlaces) :
                   LET level == ResultRecords[i].price_level
                       name == PriceLevelOf(SourcePlaces[i])
                   IN  /\ level = None \/ level.v \in {0, 1, 2, 3, 4}
                       /\ name.t \in {"null", "str"} => level = ExpectedLevel(name)

C19_Witness ==
    /\ Normalized
    /\ op = "search"
    /\ Len(SourcePlaces) = 1
    /\ PriceLevelOf(SourcePlaces[1]) = JStr("PRICE_LEVEL_UNSPECIFIED")
    /\ ~outcome.raised
    /\ outcome.value.results[1].price_level = None
    /\ outcome.value.results[1].name = Some("Cafe")

\* C20 (as stated): the coordinate bounds are enforced only at the request
\* validator and never re-checked downstream: the normalizer of no operation
\* rejects or fails on a provider reply because a latitude lies outside
\* [-90,90] or a longitude outside [-180,180].
C20_NoCoordinateRecheck ==
    Normalized /\ TameDocument(FALSE) => ~outcome.raised

----------------------------------------------------------------------------
(* Claims on the operations end to end (Spec) *)

\* the limit of the request in flight: the default when it was omitted
RequestLimit ==
    LimitValue(request.limit, IF op = "search" THEN 10 ELSE 5)

\* C21 (as stated): a successful ResolveLocations with limit n returns at
\* most n ResolvedLocation entries and every returned entry has a non-empty
\* place identifier, for every provider reply with status below 400 and a
\* JSON object body.
C21_AtMostLimitWithIds ==
    pc = "done" /\ op = "resolve" /\ IsResponse(outcome) =>
        /\ Len(outcome.value.results) <= RequestLimit
        /\ \A i \in 1..Len(outcome.value.results) :
               outcome.value.results[i].place_id # ""

\* C22: a successful SearchPlaces returns exactly one PlaceSummary per place
\* in the provider's places sequence, in the provider's order (an empty list
\* when the key is missing), and its next_page_token equals the provider's
\* nextPageToken unmodified, absent when the provider supplied none.
C22_OneSummaryPerPlaceInOrder ==
    Normalized /\ op = "search" /\ IsResponse(outcome) =>
        LET results == outcome.value.results
        IN  /\ Len(results) = Len(SourcePlaces)
            /\ Missing(Document, "places") => results = <<>>
            /\ \A i \in 1..Len(SourcePlaces) :
                   /\ results[i].place_id =
                        IF Missing(SourcePlaces[i], "id") THEN ""
                        ELSE SourcePlaces[i].fields["id"].s
                   /\ results[i] = PlaceSummary(SourcePlaces[i]).value
            /\ outcome.value.next_page_token =
                 IF Absent(Document, "nextPageToken") THEN None
                 ELSE Some(Document.fields["nextPageToken"].s)

C22_Witness ==
    /\ Normalized
    /\ op = "search"
    /\ IsResponse(outcome)
    /\ Len(SourcePlaces) = 2
    /\ outcome.value.results[1].place_id = "p1"
    /\ outcome.value.results[2].place_id = "p2"
    /\ outcome.value.results[1].name = Some("Cafe")
    /\ outcome.value.results[2].name = None
    /\ outcome.value.next_page_token = Some("next")

----------------------------------------------------------------------------
(* Claims on the built search body (SpecRequest) *)

\* the body built for the accepted search request
Body == v_result.body.v

\* C23 (as stated): the search body contains pageToken only if the request
\* supplied a page token, and whenever the request supplied one the body
\* carries that same token string verbatim (never altered, never dropped).
C23_PageTokenVerbatim ==
    SearchValidated /\ Accepted =>
        LET token == v_request.raw.page_token
        IN  /\ "pageToken" \in DOMAIN Body => token # None
            /\ token # None =>
                   "pageToken" \in DOMAIN Body /\ Body.pageToken = token.v

\* C23 (amended): the search body contains pageToken exactly when the
\* request supplied a page token that is not the empty string, and then it
\* carries that token verbatim; an empty page token is dropped.
C23_NonEmptyPageTokenVerbatim ==
    SearchValidated /\ Accepted =>
        LET token == v_request.raw.page_token
        IN  /\ "pageToken" \in DOMAIN Body <=> token # None /\ token.v # ""
            /\ "pageToken" \in DOMAIN Body => Body.pageToken = token.v

C23_Witness ==
    /\ SearchValidated
    /\ Accepted
    /\ v_request.raw.page_token = Some("tok")
    /\ Body.pageToken = "tok"
    /\ Body.pageSize = 20

----------------------------------------------------------------------------
(* Claims on the outbound call (Spec) *)

\* the field masks of the specification
ClaimedMask(operation) ==
    CASE operation = "search" ->
           <<"places.id", "places.displayName", "places.formattedAddress",
             "places.location", "places.rating", "places.priceLevel",
             "places.types", "places.currentOpeningHours", "nextPageToken">>
      [] operation = "details" ->
           <<"id", "displayName", "formattedAddress", "location", "rating",
             "priceLevel", "types", "regularOpeningHours", "currentOpeningHours",
             "nationalPhoneNumber", "websiteUri">>
      [] operation = "resolve" ->
           <<"places.id", "places.displayName", "places.formattedAddress",
             "places.location", "places.types">>

\* the vendor field a mask entry names
VendorField(entry) ==
    CASE entry = "places.id" -> "id"
      [] entry = "places.displayName" -> "displayName"
      [] entry = "places.formattedAddress" -> "formattedAddress"
      [] entry = "places.location" -> "location"
      [] entry = "places.rating" -> "rating"
      [] entry = "places.priceLevel" -> "priceLevel"
      [] entry = "places.types" -> "types"
      [] entry = "places.currentOpeningHours" -> "currentOpeningHours"
      [] OTHER -> entry

MaskFields(mask) == {VendorField(mask[i]) : i \in 1..Len(mask)}

\* every vendor field of a place and of a page of places
VendorFields == DOMAIN GoodPlace.fields \cup {"nextPageToken"}

\* a full answer to each operation, and the same answer without one field
FullDocument(operation) ==
    IF operation = "details" THEN GoodPlace
    ELSE JObj([places |-> JList(<<GoodPlace>>), nextPageToken |-> JStr("next")])

Drop(j, key) == JObj([k \in DOMAIN j.fields \ {key} |-> j.fields[k]])

WithoutField(operation, key) ==
    IF operation = "details" \/ key = "nextPageToken"
    THEN Drop(FullDocument(operation), key)
    ELSE JObj([places |-> JList(<<Drop(GoodPlace, key)>>),
               nextPageToken |-> JStr("next")])

\* what an operation makes of a status 200 with the document
Normalize(operation, document) ==
    Finish(operation, GoodRequest(operation),
           [status_code |-> 200, body |-> JsonBody(document)]).result

\* the vendor fields an operation's normalizer reads: those whose removal
\* from the full answer changes the result
FieldsRead(operation) ==
    {key \in VendorFields :
       Normalize(operation, WithoutField(operation, key))
         # Normalize(operation, FullDocument(operation))}

\* C24: the field-mask header of every outbound call depends only on the
\* operation kind, never on the request, and for each operation the set of
\* fields named in its mask equals exactly the set of vendor fields that
\* operation's normalizer reads.
C24_MaskIsWhatNormalizerReads ==
    pc = "awaiting" =>
        /\ Len(sent) = 1
        /\ sent[1].headers["X-Goog-FieldMask"] = ClaimedMask(op)
        /\ MaskFields(sent[1].headers["X-Goog-FieldMask"]) = FieldsRead(op)

C24_Witness ==
    /\ pc = "awaiting"
    /\ op = "resolve"
    /\ request.limit = Some(10)
    /\ MaskFields(sent[1].headers["X-Goog-FieldMask"])
         = {"id", "displayName", "formattedAddress", "location", "types"}
    /\ FieldsRead("resolve")
         = {"id", "displayName", "formattedAddress", "location", "types"}

\* an invocation starts in this step
Starts == pc = "idle" /\ pc' # "idle"

\* C25: the credential is looked up at each call, never cached: whatever
\* invocations and changes of the configured credential came before, the
\* API-key header of each outbound call equals the credential configured at
\* the moment of that call, and a call made after the credential is removed
\* fails with ConfigurationError.
C25_CredentialReadAtEachCall ==
    [][Starts /\ ~IsValidationError(outcome') =>
         IF env_api_key = None \/ env_api_key.v = ""
         THEN sent' = <<>> /\ IsConfigurationError(outcome')
         ELSE /\ Len(sent') = 1
              /\ sent'[1].headers["X-Goog-Api-Key"] = <<env_api_key.v>>]_vars

\* an earlier invocation reached the provider, the credential was removed,
\* and this invocation failed on it
C25_Witness ==
    /\ pc = "done"
    /\ prev_failure # None
    /\ env_api_key = None
    /\ IsConfigurationError(outcome)
    /\ sent = <<>>

----------------------------------------------------------------------------
(* Concurrent invocations: the endpoints are plain functions, which the    *)
(* server runs in worker threads. Each handler has its own locals; the     *)
(* environment and the loggers are what the workers share. A fourth        *)
(* specification.                                                          *)

Workers == {1, 2}

\* the locals of a handler that has not been invoked
IdleHandler ==
    [pc |-> "idle", op |-> "none", request |-> None, sent |-> <<>>,
     reply |-> None, outcome |-> None]

\* the validation fastapi does for each endpoint
endpoint_errors(operation, raw) ==
    CASE operation = "search" -> SearchRequestErrors(raw)
      [] operation = "details" -> {}
      [] operation = "resolve" -> LocationResolveRequestErrors(raw)

\* the HTTP request each endpoint's operation makes
endpoint_call(operation, raw, api_key) ==
    CASE operation = "search" -> search_places_call(api_key, SearchRequest(raw))
      [] operation = "details" -> get_place_details_call(api_key, raw)
      [] operation = "resolve" ->
           resolve_locations_call(api_key, LocationResolveRequest(raw))

\* the invocations that run concurrently
ConcurrentInvocations ==
    {[op |-> "search", raw |-> GoodRequest("search")],
     [op |-> "search", raw |-> [GoodRequest("search") EXCEPT !.query = <<>>]],
     [op |-> "details", raw |-> GoodRequest("details")],
     [op |-> "resolve", raw |-> GoodRequest("resolve")]}

\* what the provider answers to a call
ConcurrentReplies ==
    {[kind |-> "transport", failure |-> "ConnectError"],
     Response(500, [kind |-> "text", text |-> "<html>"]),
     Response(200, [kind |-> "text", text |-> ""]),
     Response(200, JsonBody(JObj([places |-> JList(<<GoodPlace>>)]))),
     Response(200, JsonBody(BarePlace)),
     Response(200, JsonBody(JNull))}

ConcurrentInit ==
    /\ env_api_key \in {None, Some("key1")}
    /\ pc = "idle"
    /\ op = "none"
    /\ request = None
    /\ sent = <<>>
    /\ reply = None
    /\ outcome = None
    /\ log = <<>>
    /\ prev_failure = None
    /\ v_request = None
    /\ v_result = None
    /\ handlers = [w \in Workers |-> IdleHandler]

\* a worker runs an endpoint up to the point where it waits for the provider
Invoke(w, operation, raw) ==
    /\ handlers[w].pc = "idle"
    /\ LET errors == endpoint_errors(operation, raw)
           call == endpoint_call(operation, raw, env_api_key)
           started == [IdleHandler EXCEPT !.op = operation, !.request = raw]
       IN  IF errors # {}
           THEN /\ handlers' =
                     [handlers EXCEPT ![w] =
                        [started EXCEPT !.pc = "done",
                           !.outcome = Raise(RequestValidationError(errors))]]
                /\ log' = log \o validation_exception_handler(raw, errors)
           ELSE IF call.raised
           THEN /\ handlers' =
                     [handlers EXCEPT ![w] =
                        [started EXCEPT !.pc = "done", !.outcome = call]]
                /\ log' = log
           ELSE /\ handlers' =
                     [handlers EXCEPT ![w] =
                        [started EXCEPT !.pc = "awaiting", !.sent = <<call.value>>]]
                /\ log' = log
    /\ UNCHANGED <<env_api_key, pc, op, request, sent, reply, outcome, prev_failure,
                   v_request, v_result>>

\* the provider answers the call of a worker
Answer(w, r) ==
    /\ handlers[w].pc = "awaiting"
    /\ handlers' = [handlers EXCEPT ![w].pc = "answered", ![w].reply = Some(r)]
    /\ UNCHANGED <<env_api_key, pc, op, request, sent, reply, outcome, log,
                   prev_failure, v_request, v_result>>

\* mutant: one client for the whole module, and a worker picks up whatever
\* answer arrived on it
client_request_shared(hs, w) ==
    IF \E v \in DOMAIN hs \ {w} : hs[v].reply # None
    THEN hs[CHOOSE v \in DOMAIN hs \ {w} : hs[v].reply # None].reply.v
    ELSE hs[w].reply.v

\* "with httpx.Client(timeout=10.0) as client: response = client.request(...)":
\* a client of its own for each call, whose answer is the answer to that call
client_request(hs, w) == hs[w].reply.v

\* _request returns or raises in a worker, and its operation runs to the end
Complete(w) ==
    /\ handlers[w].pc = "answered"
    /\ LET received == _request_receive(client_request(handlers, w))
       IN  IF received.raised
           THEN /\ handlers' = [handlers EXCEPT ![w].pc = "done",
                                                ![w].outcome = received]
                /\ log' = log
           ELSE LET done == Finish(handlers[w].op, handlers[w].request,
                                   received.value)
                IN  /\ handlers' = [handlers EXCEPT ![w].pc = "done",
                                                    ![w].outcome = done.result]
                    /\ log' = log \o done.log
    /\ UNCHANGED <<env_api_key, pc, op, request, sent, reply, outcome, prev_failure,
                   v_request, v_result>>

ConcurrentNext ==
    \E w \in Workers :
        \/ \E c \in ConcurrentInvocations : Invoke(w, c.op, c.raw)
        \/ \E r \in ConcurrentReplies : Answer(w, r)
        \/ Complete(w)

SpecConcurrent == ConcurrentInit /\ [][ConcurrentNext]_vars

\* what an invocation sends and how it ends when it runs alone: with the
\* credential, and against the provider's reply to it if it sent a call
AloneSent(operation, raw, api_key) ==
    IF endpoint_errors(operation, raw) # {}
         \/ endpoint_call(operation, raw, api_key).raised
    THEN <<>>
    ELSE <<endpoint_call(operation, raw, api_key).value>>

AloneOutcome(operation, raw, api_key, r) ==
    IF endpoint_errors(operation, raw) # {}
    THEN Raise(RequestValidationError(endpoint_errors(operation, raw)))
    ELSE IF endpoint_call(operation, raw, api_key).raised
    THEN endpoint_call(operation, raw, api_key)
    ELSE IF _request_receive(r.v).raised THEN _request_receive(r.v)
    ELSE Finish(operation, raw, _request_receive(r.v).value).result

\* C26: invocations share no mutable state: for any set of invocations of the
\* three operations run concurrently in any interleaving (with an unchanged
\* credential), each invocation's outbound request and outcome are the same
\* as if it ran alone against the same provider reply.
C26_ConcurrentAsAlone ==
    \A w \in Workers :
        LET h == handlers[w]
        IN  /\ h.pc # "idle" => h.sent = AloneSent(h.op, h.request, env_api_key)
            /\ h.pc = "done" =>
                   h.outcome = AloneOutcome(h.op, h.request, env_api_key, h.reply)

\* both workers ran to the end, on different operations with different
\* replies, the second completing first
C26_Witness ==
    /\ handlers[1].pc = "done" /\ handlers[2].pc = "done"
    /\ handlers[1].op = "search" /\ handlers[2].op = "details"
    /\ IsResponse(handlers[1].outcome)
    /\ IsHTTPException(handlers[2].outcome, 502, "Google Places API error (%s).")
    /\ Len(log) = 1

----------------------------------------------------------------------------
(* Claims on the order of the steps and on the classification (Spec) *)

\* the provider answered with a status and a body
Answered == reply # None /\ reply.v.kind = "response"

\* the outcome is what the normalizer returned or raised
FromNormalizer(o) ==
    \/ IsResponse(o)
    \/ o # None /\ o.raised
         /\ o.exc.type \in {"AttributeError", "TypeError", "ValidationError"}

\* C27: each operation runs its steps in the fixed order validate, build
\* body and mask, call provider, classify status, normalize: the status
\* check always precedes body parsing, so a reply with status >= 400 ends
\* with UpstreamHTTPError even when its body is not valid JSON, and
\* normalization happens only after a status below 400 and a successful parse.
C27_FixedPipelineOrder ==
    /\ sent # <<>> => ~ViolatesRule
    /\ reply # None => Len(sent) = 1
    /\ pc = "done" /\ Answered /\ reply.v.status_code >= 400
       => IsUpstreamHTTPError(outcome)
    /\ pc = "done" /\ FromNormalizer(outcome)
       => Answered /\ reply.v.status_code < 400 /\ reply.v.body.kind = "json"

C27_Witness ==
    /\ pc = "done"
    /\ Answered
    /\ reply.v.status_code = 500
    /\ reply.v.body = [kind |-> "text", text |-> "<html>"]
    /\ IsUpstreamHTTPError(outcome)
    /\ outcome.exc.detail.arg = Some(500)

----------------------------------------------------------------------------
(* Claims on the built search body, continued (SpecRequest) *)

BodyKeys ==
    {"textQuery", "pageSize", "pageToken", "locationBias", "includedType",
     "openNow", "minRating", "priceLevels"}

Has(key) == key \in DOMAIN Body

\* C28: for every validated SearchRequest the built body maps bias and
\* filters faithfully: locationBias is present exactly when a LocationBias
\* was supplied and is a circle with that center and radius; includedType is
\* the single supplied type; openNow and minRating are present with the
\* supplied value exactly when the filter was supplied (including
\* open_now = false and min_rating = 0); priceLevels is the list of vendor
\* names of the supplied levels in the same order; and the body has no key
\* outside the eight known ones.
C28_BiasAndFiltersMapped ==
    SearchValidated /\ Accepted =>
        LET bias == v_request.raw.location_bias
            f == FiltersOf(v_request.raw)
        IN  /\ DOMAIN Body \subseteq BodyKeys
            /\ Has("locationBias") <=> bias # None
            /\ Has("locationBias") =>
                   /\ DOMAIN Body.locationBias = {"circle"}
                   /\ Body.locationBias.circle.center =
                        [latitude |-> bias.v.lat, longitude |-> bias.v.lng]
                   /\ Body.locationBias.circle.radius = bias.v.radius_m
            /\ Has("includedType") <=> f.types # None /\ Len(f.types.v) = 1
            /\ Has("includedType") => Body.includedType = f.types.v[1]
            /\ Has("openNow") <=> f.open_now # None
            /\ Has("openNow") => Body.openNow = f.open_now.v
            /\ Has("minRating") <=> f.min_rating # None
            /\ Has("minRating") => Body.minRating = f.min_rating.v
            /\ Has("priceLevels") <=> f.price_levels # None /\ f.price_levels.v # <<>>
            /\ Has("priceLevels") =>
                   /\ Len(Body.priceLevels) = Len(f.price_levels.v)
                   /\ \A i \in 1..Len(f.price_levels.v) :
                          ExpectedLevel(JStr(Body.priceLevels[i]))
                            = Some(f.price_levels.v[i])

C28_Witness ==
    /\ SearchValidated
    /\ Accepted
    /\ v_request.raw.filters = GoodFilters
    /\ Body.includedType = "cafe"
    /\ Body.openNow = FALSE
    /\ Body.minRating = 35
    /\ Body.priceLevels = <<"PRICE_LEVEL_VERY_EXPENSIVE", "PRICE_LEVEL_FREE">>
    /\ ~Has("locationBias")

----------------------------------------------------------------------------
(* Claims on the HTTP call of each operation (Spec) *)

TextSearchUrl == <<"https://places.googleapis.com/v1", "/places:searchText">>

PlaceUrl(place_id) == <<"https://places.googleapis.com/v1", "/places/", place_id>>

----------------------------------------------------------------------------
(* Claims on the status threshold (Spec) *)

\* the provider answered with a status below 400 and a JSON object
AnsweredObject ==
    /\ pc = "done"
    /\ Answered
    /\ reply.v.status_code < 400
    /\ reply.v.body.kind = "json"
    /\ Document.t = "obj"

\* C30: status classification has a single threshold: for each of the three
\* operations, every provider reply with a status code below 400 (including
\* 1xx, 204 and 3xx replies, not only 2xx) whose body parses as a JSON object
\* is treated as success and normalized into a result record, never reported
\* as an upstream error: the outcome is the one a 200 reply with the same
\* body has, and it is a result record for every body of documented shape.
C30_SingleStatusThreshold ==
    AnsweredObject =>
        /\ ~IsUpstreamFailure(outcome)
        /\ outcome = Finish(op, request, Response(200, reply.v.body)).result
        /\ TameDocument(TRUE) => IsResponse(outcome)

C30_Witness ==
    /\ AnsweredObject
    /\ reply.v.status_code \in {100, 204, 302, 399}
    /\ op = "details"
    /\ Document = GoodPlace
    /\ IsResponse(outcome)
    /\ outcome.value.place_id = "p1"

====
